---- MODULE Spec2Model ----
(***************************************************************************)
(* Proxly browser extensions: the link-capture decision procedure of the   *)
(* content script, the forwarding paths to the external app, and the       *)
(* background script's message handling and settings synchronisation.      *)
(*                                                                         *)
(* Two builds are modelled side by side, selected by `platform`:           *)
(*   "universal" - the universal content script (direct navigation to      *)
(*                 proxly://) with the Manifest V3 background script;      *)
(*   "safari"    - the Safari content script (relayed through the          *)
(*                 background script and the native handler).              *)
(*                                                                         *)
(* Strings are modelled structurally.  A URL string is a record with a     *)
(* kind (absolute, fragment-only, relative, empty, unparseable); its       *)
(* path is a sequence of code points, so that percent-encoding, btoa and   *)
(* base64/UTF-8 decoding are computed on actual characters.                *)
(***************************************************************************)
EXTENDS Integers, Sequences, FiniteSets, TLC

VARIABLES
    platform,           \* which build is running: "universal" or "safari"
    page,               \* the observed document: window.location and document.baseURI
    contentSettings,    \* ProxlyContentScript.settings of the observed tab
    backgroundSettings, \* ProxlyBackground.settings
    storage,            \* browser.storage.sync: the persisted settings record
    badgeText,          \* the action badge set by updateExtensionIcon
    menuTitle,          \* the title of the context-menu entry
    toBackground,       \* runtime messages in flight to the background script
    storageEvents,      \* storage.onChanged notifications not yet delivered to the tab
    backgroundEvents,   \* storage.onChanged notifications not yet delivered to the background
    relay,              \* the background script's start-up: where init() stands, what is registered
    ui,                 \* the popup and the options page: whether open, and the settings each holds
    ev                  \* the last handler that ran, with its inputs and its effects

vars == <<platform, page, contentSettings, backgroundSettings, storage, badgeText,
          menuTitle, toBackground, storageEvents, backgroundEvents, relay, ui, ev>>

Platforms == {"universal", "safari"}

\* the background script once init() has run to its end: the settings are
\* loaded, the context-menu entry exists and the listeners are registered
Serving == [pc |-> "done", menu |-> TRUE, listening |-> TRUE]

\* neither the popup nor the options page is open
NoPages == [popup |-> [open |-> FALSE], options |-> [open |-> FALSE]]

----------------------------------------------------------------------------
(* Bounds of the model.                                                    *)

\* longest path (in code points) of an href attribute that is enumerated
MaxPathLen == 2
\* most ancestor levels between an event target and its enclosing anchor
MaxDist == 6
\* most runtime messages in flight to the background script
MaxInFlight == 1
\* most undelivered storage.onChanged notifications per listener
MaxQueue == 1
\* most open tabs a broadcast goes to
MaxTabs == 3

----------------------------------------------------------------------------
(* Characters.  A string that is encoded or decoded is a sequence of       *)
(* Unicode code points.                                                    *)

\* the code points of the literal strings the program and its inputs use
CodePoints(s) ==
    CASE s = "" -> <<>>
      [] s = "http" -> <<104,116,116,112>>
      [] s = "https" -> <<104,116,116,112,115>>
      [] s = "ftp" -> <<102,116,112>>
      [] s = "javascript" -> <<106,97,118,97,115,99,114,105,112,116>>
      [] s = "mailto" -> <<109,97,105,108,116,111>>
      [] s = "tel" -> <<116,101,108>>
      [] s = "site.test" -> <<115,105,116,101,46,116,101,115,116>>
      [] s = "other.example" -> <<111,116,104,101,114,46,101,120,97,109,112,108,101>>
      [] s = "files.example" -> <<102,105,108,101,115,46,101,120,97,109,112,108,101>>
      [] s = "cdn.example" -> <<99,100,110,46,101,120,97,109,112,108,101>>
      [] s = "example.com" -> <<101,120,97,109,112,108,101,46,99,111,109>>
      [] s = "443" -> <<52,52,51>>
      [] s = "8080" -> <<56,48,56,48>>
      [] s = "80" -> <<56,48>>
      [] s = "21" -> <<50,49>>
      [] s = "top" -> <<116,111,112>>
      [] s = "://" -> <<58,47,47>>
      [] s = ":" -> <<58>>
      [] s = "#" -> <<35>>
      [] s = "/" -> <<47>>
      [] s = "proxly://open/" -> <<112,114,111,120,108,121,58,47,47,111,112,101,110,47>>

\* String.prototype.toLowerCase on the scheme literals that occur
ToLowerCaseWord(s) ==
    CASE s = "HTTPS" -> "https"
      [] s = "JavaScript" -> "javascript"
      [] OTHER -> s

RECURSIVE Concat(_)
\* the concatenation of a sequence of sequences
Concat(ss) == IF ss = <<>> THEN <<>> ELSE Head(ss) \o Concat(Tail(ss))

\* UTF-8 bytes of one code point (up to three bytes: the Basic Multilingual Plane)
Utf8Bytes(cp) ==
    IF cp < 128 THEN <<cp>>
    ELSE IF cp < 2048 THEN <<192 + (cp \div 64), 128 + (cp % 64)>>
    ELSE <<224 + (cp \div 4096), 128 + ((cp \div 64) % 64), 128 + (cp % 64)>>

\* the upper-case hexadecimal digit (as a code point) of d in 0..15
HexDigit(d) == IF d < 10 THEN 48 + d ELSE 55 + d

\* "%XX" for one byte
PercentByte(b) == <<37, HexDigit(b \div 16), HexDigit(b % 16)>>

\* the URL parser's percent-encoding of one code point of a path or query:
\* code points above U+007E become the %XX of their UTF-8 bytes
PercentEncodeChar(cp) ==
    IF cp > 126
    THEN Concat([i \in 1..Len(Utf8Bytes(cp)) |-> PercentByte(Utf8Bytes(cp)[i])])
    ELSE <<cp>>

PercentEncode(path) == Concat([i \in 1..Len(path) |-> PercentEncodeChar(path[i])])

----------------------------------------------------------------------------
(* URLs.  A URL string is a record; `kind` says what the text looks like.  *)

SpecialSchemes == {"http", "https", "ftp"}

DefaultPort(scheme) ==
    CASE scheme = "http" -> "80"
      [] scheme = "https" -> "443"
      [] scheme = "ftp" -> "21"
      [] OTHER -> ""

\* an absolute URL string "scheme://host:port/path#frag" (or "scheme:path")
AbsStr(scheme, host, port, path, frag) ==
    [kind |-> "abs", scheme |-> scheme, host |-> host, port |-> port,
     path |-> path, frag |-> frag]
\* "#frag"
FragStr(frag) == [AbsStr("", "", "", <<>>, frag) EXCEPT !.kind = "frag"]
\* "/path"
RelStr(path) == [AbsStr("", "", "", path, "") EXCEPT !.kind = "rel"]
\* ""
EmptyStr == [AbsStr("", "", "", <<>>, "") EXCEPT !.kind = "empty"]
\* a string no URL parser accepts, such as "https://["
BadStr == [AbsStr("", "", "", <<>>, "") EXCEPT !.kind = "bad"]
\* the absent second argument of new URL(string)
NoBase == BadStr

\* new URL(str, base): {ok, url}; url is the serialised href, an absolute
\* URL string in normal form (lower-case scheme, default port dropped,
\* path percent-encoded for special schemes)
ParseUrl(str, base) ==
    IF str.kind = "abs" THEN
        LET s == ToLowerCaseWord(str.scheme) IN
        [ok |-> TRUE,
         url |-> AbsStr(s, str.host,
                        IF str.port = DefaultPort(s) THEN "" ELSE str.port,
                        IF s \in SpecialSchemes THEN PercentEncode(str.path) ELSE str.path,
                        str.frag)]
    ELSE IF str.kind = "bad" \/ base.kind # "abs" THEN [ok |-> FALSE, url |-> BadStr]
    ELSE IF str.kind = "frag" THEN [ok |-> TRUE, url |-> [base EXCEPT !.frag = str.frag]]
    ELSE IF str.kind = "rel" THEN
        [ok |-> TRUE, url |-> [base EXCEPT !.path = PercentEncode(str.path), !.frag = ""]]
    ELSE [ok |-> TRUE, url |-> [base EXCEPT !.frag = ""]]

\* URL.origin: scheme, host and port for special schemes, the opaque "null" otherwise
Origin(url) ==
    IF url.scheme \in SpecialSchemes
    THEN [scheme |-> url.scheme, host |-> url.host, port |-> url.port]
    ELSE [scheme |-> "null", host |-> "", port |-> ""]

\* URL.protocol is "http:" or "https:"
IsHttpProtocol(url) == url.scheme \in {"http", "https"}

\* the characters of an absolute URL string
StringChars(str) ==
    CodePoints(str.scheme)
    \o (IF str.scheme \in SpecialSchemes THEN CodePoints("://") ELSE CodePoints(":"))
    \o CodePoints(str.host)
    \o (IF str.port = "" THEN <<>> ELSE CodePoints(":") \o CodePoints(str.port))
    \o (IF str.scheme \in SpecialSchemes THEN CodePoints("/") ELSE <<>>)
    \o str.path
    \o (IF str.frag = "" THEN <<>> ELSE CodePoints("#") \o CodePoints(str.frag))

----------------------------------------------------------------------------
(* btoa and the receiver's decoding.                                       *)

\* the character of the standard base64 alphabet for a 6-bit value
Base64Char(v) ==
    IF v < 26 THEN 65 + v
    ELSE IF v < 52 THEN 97 + (v - 26)
    ELSE IF v < 62 THEN 48 + (v - 52)
    ELSE IF v = 62 THEN 43
    ELSE 47

RECURSIVE Base64Encode(_)
\* standard base64 with '=' padding of a sequence of bytes
Base64Encode(bytes) ==
    IF Len(bytes) = 0 THEN <<>>
    ELSE IF Len(bytes) = 1 THEN
        <<Base64Char(bytes[1] \div 4), Base64Char((bytes[1] % 4) * 16), 61, 61>>
    ELSE IF Len(bytes) = 2 THEN
        <<Base64Char(bytes[1] \div 4),
          Base64Char((bytes[1] % 4) * 16 + (bytes[2] \div 16)),
          Base64Char((bytes[2] % 16) * 4), 61>>
    ELSE
        <<Base64Char(bytes[1] \div 4),
          Base64Char((bytes[1] % 4) * 16 + (bytes[2] \div 16)),
          Base64Char((bytes[2] % 16) * 4 + (bytes[3] \div 64)),
          Base64Char(bytes[3] % 64)>>
        \o Base64Encode(SubSeq(bytes, 4, Len(bytes)))

\* window.btoa: each code unit is one byte; a code unit above 0xFF throws
\* InvalidCharacterError
btoa(chars) ==
    IF \E i \in 1..Len(chars) : chars[i] > 255
    THEN [ok |-> FALSE, out |-> <<>>]
    ELSE [ok |-> TRUE, out |-> Base64Encode(chars)]

\* Data(urlString.utf8).base64EncodedString() of the native handler
Utf8Base64(chars) ==
    Base64Encode(Concat([i \in 1..Len(chars) |-> Utf8Bytes(chars[i])]))

\* the 6-bit value of a character of the standard alphabet, -1 for any other
Base64Value(c) ==
    IF c >= 65 /\ c <= 90 THEN c - 65
    ELSE IF c >= 97 /\ c <= 122 THEN c - 71
    ELSE IF c >= 48 /\ c <= 57 THEN c + 4
    ELSE IF c = 43 THEN 62
    ELSE IF c = 47 THEN 63
    ELSE -1

RECURSIVE Base64Decode(_)
\* the receiver's standard base64 decoding: {ok, bytes}
Base64Decode(chars) ==
    IF Len(chars) = 0 THEN [ok |-> TRUE, bytes |-> <<>>]
    ELSE IF Len(chars) < 4 THEN [ok |-> FALSE, bytes |-> <<>>]
    ELSE
        LET a == Base64Value(chars[1])
            b == Base64Value(chars[2])
            c == Base64Value(chars[3])
            d == Base64Value(chars[4])
            rest == Base64Decode(SubSeq(chars, 5, Len(chars)))
        IN  IF a < 0 \/ b < 0 THEN [ok |-> FALSE, bytes |-> <<>>]
            ELSE IF chars[3] = 61 /\ chars[4] = 61 /\ Len(chars) = 4
                THEN [ok |-> TRUE, bytes |-> <<a * 4 + (b \div 16)>>]
            ELSE IF c >= 0 /\ chars[4] = 61 /\ Len(chars) = 4
                THEN [ok |-> TRUE,
                      bytes |-> <<a * 4 + (b \div 16), (b % 16) * 16 + (c \div 4)>>]
            ELSE IF c < 0 \/ d < 0 \/ ~rest.ok THEN [ok |-> FALSE, bytes |-> <<>>]
            ELSE [ok |-> TRUE,
                  bytes |-> <<a * 4 + (b \div 16), (b % 16) * 16 + (c \div 4),
                              (c % 4) * 64 + d>> \o rest.bytes]

\* a UTF-8 continuation byte
IsContinuation(b) == b >= 128 /\ b < 192

RECURSIVE Utf8Decode(_)
\* the receiver's UTF-8 decoding of the decoded bytes: {ok, chars}
Utf8Decode(bytes) ==
    IF Len(bytes) = 0 THEN [ok |-> TRUE, chars |-> <<>>]
    ELSE
        LET b == bytes[1]
            n == IF b < 128 THEN 1
                 ELSE IF b >= 192 /\ b < 224 THEN 2
                 ELSE IF b >= 224 /\ b < 240 THEN 3
                 ELSE 0
        IN  IF n = 0 \/ Len(bytes) < n
               \/ (\E i \in 2..n : ~IsContinuation(bytes[i]))
            THEN [ok |-> FALSE, chars |-> <<>>]
            ELSE
                LET cp == IF n = 1 THEN b
                          ELSE IF n = 2 THEN (b - 192) * 64 + (bytes[2] - 128)
                          ELSE (b - 224) * 4096 + (bytes[2] - 128) * 64 + (bytes[3] - 128)
                    rest == Utf8Decode(SubSeq(bytes, n + 1, Len(bytes)))
                IN  IF rest.ok THEN [ok |-> TRUE, chars |-> <<cp>> \o rest.chars]
                    ELSE [ok |-> FALSE, chars |-> <<>>]

\* what the external app recovers from a forwarding URI: the text after
\* "proxly://open/", base64-decoded and read as UTF-8
ReceiverDecode(uri) ==
    LET prefix == CodePoints("proxly://open/") IN
    IF Len(uri) < Len(prefix) \/ SubSeq(uri, 1, Len(prefix)) # prefix
    THEN [ok |-> FALSE, chars |-> <<>>]
    ELSE LET d == Base64Decode(SubSeq(uri, Len(prefix) + 1, Len(uri))) IN
         IF d.ok THEN Utf8Decode(d.bytes) ELSE [ok |-> FALSE, chars |-> <<>>]

----------------------------------------------------------------------------
(* Settings records.  A field that is undefined in JavaScript is absent    *)
(* from the record's domain.                                               *)

SettingsFields == {"linkMode", "enabled", "visualFeedback", "soundFeedback"}

\* the record with the given fields; the value "absent" leaves a field out
MkSettings(linkMode, enabled, visualFeedback, soundFeedback) ==
    LET v == [linkMode |-> linkMode, enabled |-> enabled,
              visualFeedback |-> visualFeedback, soundFeedback |-> soundFeedback]
    IN  [f \in {g \in SettingsFields : v[g] # "absent"} |->
            IF f = "linkMode" THEN v[f] ELSE (v[f] = "true")]

\* a boolean field read in a condition: undefined is falsy
Truthy(settings, field) == field \in DOMAIN settings /\ settings[field] = TRUE

\* settings.linkMode, "undefined" when the field is absent
LinkModeOf(settings) ==
    IF "linkMode" \in DOMAIN settings THEN settings.linkMode ELSE "undefined"

\* the constructor's literal of all three classes
DefaultSettings == MkSettings("all", "true", "true", "false")

----------------------------------------------------------------------------
(* The capture predicate and the click handler of the content script.      *)

\* an <a> element: whether it carries an href attribute, the attribute's
\* text, and whether it carries a download attribute
Anchor(hasHref, attr, download) ==
    [hasHref |-> hasHref, attr |-> attr, download |-> download]

\* the href property: the attribute resolved against document.baseURI, the
\* attribute's own text when it does not parse, "" without the attribute
AnchorHref(anchor, baseURI) ==
    IF ~anchor.hasHref THEN EmptyStr
    ELSE LET r == ParseUrl(anchor.attr, baseURI) IN
         IF r.ok THEN r.url ELSE anchor.attr

\* String.prototype.toLowerCase of a URL string
ToLowerCase(str) == [str EXCEPT !.scheme = ToLowerCaseWord(str.scheme)]

\* href.startsWith(scheme + ':')
StartsWithScheme(str, scheme) == str.kind = "abs" /\ str.scheme = scheme

\* href.startsWith('#')
StartsWithHash(str) == str.kind = "frag"

maxDepth == 5

\* the ancestor chain of an event target, from the target up to the
\* document node: dist levels of inline elements below the anchor, or no
\* anchor at all when dist < 0
TargetChain(dist) ==
    (IF dist < 0 THEN <<"span">> ELSE [i \in 1..dist |-> "span"] \o <<"a">>)
    \o <<"body", "html", "#document">>

RECURSIVE FindLinkWalk(_, _, _)
\* the loop of findLinkElement: position in the chain of the anchor found, 0 for null
FindLinkWalk(chain, current, depth) ==
    IF current <= Len(chain) /\ current < Len(chain) /\ depth < maxDepth
    THEN IF chain[current] = "a" THEN current
         ELSE FindLinkWalk(chain, current + 1, depth + 1)
    ELSE 0

findLinkElement(chain) == FindLinkWalk(chain, 1, 0)

hasHrefAttributeAssumed(anchor) == TRUE

\* anchor.hasAttribute('href')
hasHrefAttribute(anchor) == anchor.hasHref

\* href starts with 'javascript:', 'mailto:' or 'tel:'
isSpecialProtocol(href) ==
    StartsWithScheme(href, "javascript") \/ StartsWithScheme(href, "mailto")
    \/ StartsWithScheme(href, "tel")

\* href.startsWith('#'), applied to the resolved href property
isSamePageAnchor(href) == StartsWithHash(href)

\* anchor.hasAttribute('download')
isDownloadLink(anchor) == anchor.download

settingsEnabledAlways(settings) == TRUE

\* a predicate that captures only while the indicator is switched on
settingsEnabledVisibly(settings) ==
    Truthy(settings, "enabled") /\ Truthy(settings, "visualFeedback")

\* this.settings.enabled read as a condition
settingsEnabled(settings) == Truthy(settings, "enabled")

isAllLinksModeOrContext(settings) == LinkModeOf(settings) \in {"all", "context"}

\* this.settings.linkMode === 'all'
isAllLinksMode(settings) == LinkModeOf(settings) = "all"

isExternalByHost(linkUrl, currentUrl) == linkUrl.host # currentUrl.host

\* linkUrl.origin !== currentUrl.origin
isExternal(linkUrl, currentUrl) == Origin(linkUrl) # Origin(currentUrl)

\* the universal content script's predicate, which the Safari port repeats
\* line by line
shouldCaptureLink(settings, anchor, baseURI, location) ==
    LET href == ToLowerCase(AnchorHref(anchor, baseURI)) IN
    IF ~hasHrefAttribute(anchor) THEN FALSE
    ELSE IF isSpecialProtocol(href) THEN FALSE
    ELSE IF isSamePageAnchor(href) THEN FALSE
    ELSE IF isDownloadLink(anchor) THEN FALSE
    ELSE IF ~settingsEnabled(settings) THEN FALSE
    ELSE IF isAllLinksMode(settings) THEN
        LET linkUrl == ParseUrl(AnchorHref(anchor, baseURI), baseURI)
            currentUrl == ParseUrl(location, NoBase)
        IN  IF linkUrl.ok /\ currentUrl.ok
            THEN isExternal(linkUrl.url, currentUrl.url)
            ELSE FALSE
    ELSE IF LinkModeOf(settings) = "context" THEN FALSE
    ELSE FALSE

isValidUrlAnyScheme(urlString) == ParseUrl(urlString, NoBase).ok

\* isValidUrl, the same in the content and the background scripts
isValidUrl(urlString) ==
    LET url == ParseUrl(urlString, NoBase) IN
    IF url.ok THEN IsHttpProtocol(url.url) ELSE FALSE

forwardToProxlyDirectUnencoded(url) ==
    [ok |-> TRUE, proxlyUrl |-> CodePoints("proxly://open/") \o StringChars(url)]

\* forwardToProxlyDirect, up to the navigation: {ok, proxlyUrl}; not ok when
\* btoa throws
forwardToProxlyDirect(url) ==
    LET encodedUrl == btoa(StringChars(url)) IN
    [ok |-> encodedUrl.ok,
     proxlyUrl |-> IF encodedUrl.ok
                   THEN CodePoints("proxly://open/") \o encodedUrl.out
                   ELSE <<>>]

\* showCaptureFeedback: the announcement, and the indicator and the tone
\* when the settings ask for them
showCaptureFeedback(settings) ==
    {"announce"}
    \cup (IF Truthy(settings, "visualFeedback") THEN {"visual"} ELSE {})
    \cup (IF Truthy(settings, "soundFeedback") THEN {"sound"} ELSE {})

maxRetries == 2

\* whether sendMessageWithRetry tries again after this failure: the
\* universal script on 'Extension context invalidated' only, the Safari
\* script also on 'No receiving end' and on 'The message port closed
\* before a response was received' or 'Message manager disconnected'
IsTransient(plat, outcome) ==
    outcome = "invalidated" \/ (plat = "safari" /\ outcome \in {"noReceiver", "portClosed"})

RECURSIVE SendLoop(_, _, _)
\* the loop of sendMessageWithRetry over the outcomes of successive
\* runtime.sendMessage calls: {delivered, attempts, error}
SendLoop(plat, outcomes, i) ==
    IF i >= maxRetries
    THEN [delivered |-> FALSE, attempts |-> i, error |-> "All message attempts failed"]
    ELSE IF outcomes[i + 1] = "ok"
    THEN [delivered |-> TRUE, attempts |-> i + 1, error |-> ""]
    ELSE IF IsTransient(plat, outcomes[i + 1])
    THEN SendLoop(plat, outcomes, i + 1)
    ELSE [delivered |-> FALSE, attempts |-> i + 1, error |-> outcomes[i + 1]]

sendMessageWithRetry(plat, outcomes) == SendLoop(plat, outcomes, 0)

\* sendMessageWithRetry with the check the Safari script makes first: no
\* browser.runtime.id, no attempt
sendMessageWithRetryAlive(plat, runtimeId, outcomes) ==
    IF plat = "safari" /\ ~runtimeId
    THEN [delivered |-> FALSE, attempts |-> 0, error |-> "Extension context invalidated"]
    ELSE sendMessageWithRetry(plat, outcomes)

\* a runtime message; fields a sender leaves out are marked absent
Message(type, hasUrl, url, isTest, enabled, settings) ==
    [type |-> type, hasUrl |-> hasUrl, url |-> url, isTest |-> isTest,
     enabled |-> enabled, settings |-> settings]

\* {type: 'CAPTURE_LINK', url} as the Safari content script sends it
CaptureLinkMessage(url) ==
    Message("CAPTURE_LINK", TRUE, url, FALSE, "absent", DefaultSettings)

\* one thing handed to the external app: the URL the forwarder was given,
\* the proxly:// URI built from it, and the path it took
Handed(url, uri, via) == [url |-> url, uri |-> uri, via |-> via]

\* captureLink with the feedback after the forward, skipped when that fails
captureLinkFeedbackLast(plat, settings, url, outcomes) ==
    LET delivered == IF plat = "universal" THEN forwardToProxlyDirect(url).ok
                     ELSE sendMessageWithRetry(plat, outcomes).delivered
        f == forwardToProxlyDirect(url)
    IN  [feedback |-> IF delivered THEN showCaptureFeedback(settings) ELSE {},
         error |-> IF delivered THEN "" ELSE "errorProxlyNotRunning",
         handed |-> IF plat = "universal" /\ delivered
                    THEN <<Handed(url, f.proxlyUrl, "direct")>> ELSE <<>>,
         sent |-> IF plat = "safari" /\ delivered
                  THEN <<CaptureLinkMessage(url)>> ELSE <<>>]

\* captureLink: feedback first, then the forward.  The universal script
\* navigates the page to the proxly:// URI; the Safari script sends
\* CAPTURE_LINK to the background script.
captureLink(plat, settings, url, outcomes) ==
    LET feedback == showCaptureFeedback(settings) IN
    IF plat = "universal" THEN
        LET f == forwardToProxlyDirect(url) IN
        [feedback |-> feedback,
         error |-> IF f.ok THEN "" ELSE "errorProxlyNotRunning",
         handed |-> IF f.ok THEN <<Handed(url, f.proxlyUrl, "direct")>> ELSE <<>>,
         sent |-> <<>>]
    ELSE
        LET r == sendMessageWithRetry(plat, outcomes) IN
        [feedback |-> feedback,
         error |-> IF r.delivered THEN "" ELSE "errorProxlyNotRunning",
         handed |-> <<>>,
         sent |-> IF r.delivered THEN <<CaptureLinkMessage(url)>> ELSE <<>>]

\* the result of a listener that hands nothing over: it returned before a
\* link was found, after shouldCaptureLink said no, or on a URL that did not
\* parse or was not http(s)
NoCapture(found, called, decision, url, error) ==
    [found |-> found, called |-> called, decision |-> decision, prevented |-> FALSE,
     url |-> url, feedback |-> {}, error |-> error, handed |-> <<>>, sent |-> <<>>]

\* handleLinkClick for an event whose target has the given ancestor chain;
\* anchor describes the <a> of the chain, if there is one
handleLinkClick(plat, settings, pg, chain, anchor, outcomes) ==
    LET found == findLinkElement(chain) # 0
        decision == found /\ shouldCaptureLink(settings, anchor, pg.baseURI, pg.location)
    IN
    IF ~decision THEN NoCapture(found, found, decision, BadStr, "")
    ELSE
        LET parsed == ParseUrl(AnchorHref(anchor, pg.baseURI), pg.baseURI) IN
        IF ~parsed.ok
        THEN NoCapture(found, found, decision, BadStr, "errorInvalidUrl")
        ELSE IF ~isValidUrl(parsed.url)
        THEN NoCapture(found, found, decision, parsed.url, "")
        ELSE
            LET c == captureLink(plat, settings, parsed.url, outcomes) IN
            [found |-> found, called |-> found, decision |-> decision, prevented |-> TRUE,
             url |-> parsed.url, feedback |-> c.feedback, error |-> c.error,
             handed |-> c.handed, sent |-> c.sent]

\* the three listeners of setupEventListeners: whether the event reaches
\* handleLinkClick
ListenerRuns(event, chain) ==
    \/ event.type = "click"
    \/ event.type = "auxclick" /\ event.button = 1
    \/ event.type = "keydown" /\ event.key = "Enter" /\ chain[1] = "a"

----------------------------------------------------------------------------
(* The native handler and the background script's forwarder.               *)

\* what the environment does to the calls a handler makes: whether the
\* sender has a tab, and whether tabs.update, sendNativeMessage,
\* NSWorkspace.open, storage.sync.get/set, the badge calls and
\* tabs.sendMessage to the observed tab succeed; for every other open tab
\* whether tabs.sendMessage to it succeeds, and whether tabs.query does.
\* nativeOk says whether the native message reaches its handler, replyOk
\* whether the handler's response reaches the background script: a
\* sendNativeMessage that rejects may or may not have been handled
Env(hasTab, tabsOk, nativeOk, openOk, getOk, setOk, iconOk, tabReachable, otherTabs, queryOk, replyOk) ==
    [hasTab |-> hasTab, tabsOk |-> tabsOk, nativeOk |-> nativeOk, openOk |-> openOk,
     getOk |-> getOk, setOk |-> setOk, iconOk |-> iconOk, tabReachable |-> tabReachable,
     otherTabs |-> otherTabs, queryOk |-> queryOk, replyOk |-> replyOk]

\* URL(string:) of Foundation, as far as the handler's guard reads it: an
\* absolute URL string with its scheme as written
SwiftUrl(str) == [ok |-> str.kind = "abs", scheme |-> str.scheme]

\* SafariWebExtensionHandler.handleForwardUrl for a message that carries a
\* url: the response, and what NSWorkspace.open was asked to open
handleForwardUrl(urlString, openOk) ==
    LET url == SwiftUrl(urlString) IN
    IF ~(url.ok /\ (url.scheme = "http" \/ url.scheme = "https"))
    THEN [success |-> FALSE, error |-> "Invalid URL format", handed |-> <<>>]
    ELSE
        LET encodedUrl == Utf8Base64(StringChars(urlString))
            proxlyUrlString == CodePoints("proxly://open/") \o encodedUrl
        IN  IF openOk
            THEN [success |-> TRUE, error |-> "",
                  handed |-> <<Handed(urlString, proxlyUrlString, "native")>>]
            ELSE [success |-> FALSE, error |-> "Failed to open Proxly", handed |-> <<>>]

\* forwardToProxly of the Manifest V3 background script: btoa, then
\* tabs.update of the sender's tab; {ok, handed}, not ok when it throws
forwardToProxlyTab(url, env) ==
    LET encodedUrl == btoa(StringChars(url)) IN
    IF encodedUrl.ok /\ env.hasTab /\ env.tabsOk
    THEN [ok |-> TRUE,
          handed |-> <<Handed(url, CodePoints("proxly://open/") \o encodedUrl.out, "tabs")>>]
    ELSE [ok |-> FALSE, handed |-> <<>>]

\* forwardToProxly of the Safari background script without its fallback
forwardToProxlyNativeOnly(url, env) ==
    LET response == IF env.nativeOk THEN handleForwardUrl(url, env.openOk)
                    ELSE [success |-> FALSE, error |-> "native messaging", handed |-> <<>>]
    IN  [ok |-> response.success /\ env.replyOk, handed |-> response.handed]

\* forwardToProxly of the Safari background script with a guard on its
\* fallback: no direct navigation once the native handler has opened the URL
forwardToProxlyNativeOnce(url, env) ==
    LET response == IF env.nativeOk THEN handleForwardUrl(url, env.openOk)
                    ELSE [success |-> FALSE, error |-> "native messaging", handed |-> <<>>]
    IN  IF response.success THEN [ok |-> env.replyOk, handed |-> response.handed]
        ELSE LET fallback == forwardToProxlyTab(url, env) IN
             [ok |-> fallback.ok, handed |-> response.handed \o fallback.handed]

\* forwardToProxly of the Safari background script: the native message
\* first, and the direct navigation of the tab when sendNativeMessage
\* throws or resolves with a response that is not a success
forwardToProxlyNative(url, env) ==
    LET response == IF env.nativeOk THEN handleForwardUrl(url, env.openOk)
                    ELSE [success |-> FALSE, error |-> "native messaging", handed |-> <<>>]
    IN  IF response.success /\ env.replyOk THEN [ok |-> TRUE, handed |-> response.handed]
        ELSE LET fallback == forwardToProxlyTab(url, env) IN
             [ok |-> fallback.ok, handed |-> response.handed \o fallback.handed]

forwardToProxly(plat, url, env) ==
    IF plat = "safari" THEN forwardToProxlyNative(url, env)
    ELSE forwardToProxlyTab(url, env)

menuItemId == "proxly-open-url"

\* handleContextMenuClick: whether it calls forwardToProxly, and what the
\* click hands to the external app
handleContextMenuClick(plat, info, env) ==
    IF info.menuItemId # menuItemId \/ ~info.hasLinkUrl
    THEN [forwarded |-> FALSE, handed |-> <<>>]
    ELSE IF ~isValidUrl(info.linkUrl)
    THEN [forwarded |-> FALSE, handed |-> <<>>]
    ELSE [forwarded |-> TRUE, handed |-> forwardToProxly(plat, info.linkUrl, env).handed]

----------------------------------------------------------------------------
(* The background script's settings and message handler.                   *)

\* the record loadSettings builds from a storage.sync.get result
LoadedSettings(result) ==
    [linkMode |-> IF "linkMode" \in DOMAIN result THEN result.linkMode ELSE "all",
     enabled |-> IF "enabled" \in DOMAIN result THEN result.enabled ELSE TRUE,
     visualFeedback |-> IF "visualFeedback" \in DOMAIN result
                        THEN result.visualFeedback ELSE TRUE,
     soundFeedback |-> Truthy(result, "soundFeedback"),
     version |-> IF "version" \in DOMAIN result THEN result.version ELSE "1.0.0"]

\* the empty record: an object without fields, an empty store
EmptyRecord == [f \in {} |-> TRUE]

\* the record the catch branch of loadSettings returns
FallbackSettings == LoadedSettings(EmptyRecord)

\* {...a, ...b}: the fields of b over those of a
Spread(a, b) ==
    [f \in DOMAIN a \cup DOMAIN b |-> IF f \in DOMAIN b THEN b[f] ELSE a[f]]

\* updateExtensionIcon: the badge text for an enabled state
BadgeFor(enabled) == IF enabled THEN "" ELSE "OFF"

\* updateContextMenuVisibility: the menu title for a link mode
TitleFor(linkMode) ==
    IF linkMode = "all" THEN "Open with Proxly (all links mode active)"
    ELSE "Open with Proxly"

\* responses of the handler
SettingsResponse(settings) == [tag |-> "settings", settings |-> settings]
CaptureResponseUnmarked(success, test, error) ==
    [tag |-> "capture", success |-> success, test |-> FALSE, error |-> error]
CaptureResponse(success, test, error) ==
    [tag |-> "capture", success |-> success, test |-> test, error |-> error]
ReceivedResponse == [tag |-> "received"]
ToggleResponse(enabled) == [tag |-> "toggle", enabled |-> enabled]
ErrorResponse(error) == [tag |-> "error", error |-> error]

\* what a handler run leaves behind: the responses it sent, the exception
\* it threw ("" for none), the settings cache, the storage.sync.set it made,
\* the badge and menu title, whether it called forwardToProxly, what
\* reached the external app, and the settings it delivered to the observed
\* tab, and the tally of the broadcast it made
Effect(responses, thrown, settings, write, badge, title, forwarded, handed, delivered, broadcast) ==
    [responses |-> responses, thrown |-> thrown, settings |-> settings,
     write |-> write, badge |-> badge, title |-> title, forwarded |-> forwarded,
     handed |-> handed, delivered |-> delivered, broadcast |-> broadcast]

\* the tally of a broadcast: the tabs tabs.sendMessage was called for, in
\* order, the tabs that received the message, and the two counters
Tally(attempts, reached, successCount, errorCount) ==
    [attempts |-> attempts, reached |-> reached, successCount |-> successCount,
     errorCount |-> errorCount]

NoBroadcast == Tally(<<>>, {}, 0, 0)

\* the tabs tabs.query returns: the observed tab and every other open tab,
\* each as whether tabs.sendMessage to it is fulfilled
OpenTabs(env) == <<env.tabReachable>> \o env.otherTabs

RECURSIVE SendToTabsUntilFailure(_, _, _)
RECURSIVE SendToTabs(_, _, _)

SendToTabsUntilFailure(tabs, i, tally) ==
    IF i > Len(tabs) THEN tally
    ELSE IF tabs[i]
    THEN SendToTabsUntilFailure(tabs, i + 1,
            Tally(Append(tally.attempts, i), tally.reached \cup {i},
                  tally.successCount + 1, tally.errorCount))
    ELSE Tally(Append(tally.attempts, i), tally.reached, tally.successCount,
               tally.errorCount + 1)

\* the for loop of broadcastSettingsUpdate from tab i on: one
\* tabs.sendMessage per tab, inside its own try/catch
SendToTabs(tabs, i, tally) ==
    IF i > Len(tabs) THEN tally
    ELSE IF tabs[i]
    THEN SendToTabs(tabs, i + 1,
            Tally(Append(tally.attempts, i), tally.reached \cup {i},
                  tally.successCount + 1, tally.errorCount))
    ELSE SendToTabs(tabs, i + 1,
            Tally(Append(tally.attempts, i), tally.reached, tally.successCount,
                  tally.errorCount + 1))

\* broadcastSettingsUpdate: tabs.query, then the loop; the outer catch
\* swallows a failed query
BroadcastTally(env) ==
    IF env.queryOk THEN SendToTabs(OpenTabs(env), 1, NoBroadcast) ELSE NoBroadcast

\* broadcastSettingsUpdate as the observed tab sees it: the settings it
\* receives, none when tabs.sendMessage to it fails
broadcastSettingsUpdate(settings, env) ==
    IF 1 \in BroadcastTally(env).reached THEN <<settings>> ELSE <<>>

ToggleNewStateKept(plat, settings, message) == Truthy(settings, "enabled")

\* the newState of the TOGGLE_EXTENSION case
ToggleNewState(plat, settings, message) ==
    IF plat = "safari" /\ message.enabled # "absent"
    THEN message.enabled = "true"
    ELSE ~Truthy(settings, "enabled")

\* the default case of the switch
UnknownTypeResponse == <<ErrorResponse("Unknown message type")>>

\* the switch inside the try block of handleRuntimeMessage, of either
\* background script
RuntimeMessageSwitch(plat, settings, store, badge, title, message, env) ==
    LET same == Effect(<<>>, "", settings, EmptyRecord, badge, title, FALSE, <<>>, <<>>,
                      NoBroadcast)
    IN
    IF message.type = "GET_SETTINGS" THEN
        IF env.getOk
        THEN [same EXCEPT !.responses = <<SettingsResponse(LoadedSettings(store))>>,
                          !.settings = LoadedSettings(store)]
        ELSE [same EXCEPT !.responses = <<SettingsResponse(FallbackSettings)>>]
    ELSE IF message.type = "CAPTURE_LINK" THEN
        IF message.hasUrl /\ isValidUrl(message.url) THEN
            IF message.isTest
            THEN [same EXCEPT !.responses = <<CaptureResponse(TRUE, TRUE, "")>>]
            ELSE
                LET f == forwardToProxly(plat, message.url, env)
                IN  IF plat = "safari" /\ ~f.ok
                    THEN [same EXCEPT !.thrown = "Native app failed",
                                      !.forwarded = TRUE, !.handed = f.handed]
                    ELSE [same EXCEPT !.responses = <<CaptureResponse(TRUE, FALSE, "")>>,
                                      !.forwarded = TRUE, !.handed = f.handed]
        ELSE [same EXCEPT !.responses = <<CaptureResponse(FALSE, FALSE, "Invalid URL")>>]
    ELSE IF message.type = "SETTINGS_UPDATED" THEN
        IF plat = "safari" THEN
            [same EXCEPT
                !.responses = <<ReceivedResponse>>,
                !.settings = Spread(settings, message.settings),
                !.badge = IF "enabled" \in DOMAIN message.settings /\ env.iconOk
                          THEN BadgeFor(message.settings.enabled) ELSE badge,
                !.title = IF "linkMode" \in DOMAIN message.settings
                          THEN TitleFor(message.settings.linkMode) ELSE title,
                !.delivered = broadcastSettingsUpdate(message.settings, env),
                !.broadcast = BroadcastTally(env)]
        ELSE [same EXCEPT
                !.responses = <<ReceivedResponse>>,
                !.delivered = broadcastSettingsUpdate(message.settings, env),
                !.broadcast = BroadcastTally(env)]
    ELSE IF message.type = "TOGGLE_EXTENSION" THEN
        LET newState == ToggleNewState(plat, settings, message)
            toggled == Spread(settings, [enabled |-> newState])
        IN  IF ~env.setOk
            THEN [same EXCEPT !.thrown = "storage.sync.set failed", !.settings = toggled]
            ELSE [same EXCEPT
                    !.responses = <<ToggleResponse(newState)>>,
                    !.settings = toggled,
                    !.write = [enabled |-> newState],
                    !.badge = IF env.iconOk THEN BadgeFor(newState) ELSE badge]
    ELSE [same EXCEPT !.responses = UnknownTypeResponse]

handleRuntimeMessageUncaught(plat, settings, store, badge, title, message, env) ==
    RuntimeMessageSwitch(plat, settings, store, badge, title, message, env)

\* handleRuntimeMessage: the switch inside try, and the catch that answers
\* an exception with {error: error.message}
handleRuntimeMessage(plat, settings, store, badge, title, message, env) ==
    LET r == RuntimeMessageSwitch(plat, settings, store, badge, title, message, env) IN
    IF r.thrown # ""
    THEN [r EXCEPT !.responses = r.responses \o <<ErrorResponse(r.thrown)>>, !.thrown = ""]
    ELSE r

\* SafariWebExtensionHandler.handleExtensionMessage for a dictionary with a
\* type: the response, and what was opened
handleExtensionMessage(message, openOk) ==
    IF message.type = "FORWARD_URL" THEN
        IF ~message.hasUrl
        THEN [success |-> FALSE, error |-> "Missing URL", handed |-> <<>>]
        ELSE handleForwardUrl(message.url, openOk)
    ELSE [success |-> FALSE, error |-> "Unknown message type", handed |-> <<>>]

\* the record handleInstallation stores on install
InstallDefaults ==
    [linkMode |-> "all", enabled |-> TRUE, visualFeedback |-> TRUE,
     soundFeedback |-> FALSE, version |-> "1.0.0"]

\* the changes object of storage.onChanged for a storage.sync.set: the new
\* value of every key whose stored value changed
StorageChanges(store, write) ==
    [k \in {f \in DOMAIN write : f \notin DOMAIN store \/ store[f] # write[f]} |-> write[k]]

\* the storage.onChanged listener of the content script: each of the four
\* fields follows its change
ContentStorageListener(settings, changes) ==
    Spread(settings, [k \in DOMAIN changes \cap SettingsFields |-> changes[k]])

\* the runtime.onMessage listener of the content script for SETTINGS_UPDATED
ContentSettingsUpdated(settings, messageSettings) == messageSettings

\* the record the content script's loadSettings builds from storage
ContentLoadedSettings(result) ==
    [f \in SettingsFields |-> LoadedSettings(result)[f]]

----------------------------------------------------------------------------
(* Inputs.                                                                 *)

\* the characters paths are made of: 'x', '?', '&', '%', U+00E9, U+65E5
PathAlphabet == {120, 63, 38, 37, 233, 26085}

\* every path of at most n characters
PathsUpTo(n) == UNION {[1..k -> PathAlphabet] : k \in 0..n}

PathX == <<120>>

SiteUrl == AbsStr("https", "site.test", "", PathX, "")
CrossUrl == AbsStr("https", "other.example", "", PathX, "")

\* href attribute texts: cross-origin and same-origin http(s) URLs (by
\* host, by port, by scheme, with the default port written out), the
\* schemes the predicate names, another scheme, a fragment, a relative
\* path, the empty string and a string that does not parse
HrefAttributes ==
    {CrossUrl, SiteUrl,
     AbsStr("https", "site.test", "443", PathX, ""),
     AbsStr("https", "site.test", "8080", PathX, ""),
     AbsStr("http", "site.test", "", PathX, ""),
     AbsStr("HTTPS", "site.test", "", PathX, "top"),
     AbsStr("javascript", "", "", PathX, ""),
     AbsStr("JavaScript", "", "", PathX, ""),
     AbsStr("mailto", "", "", PathX, ""),
     AbsStr("tel", "", "", PathX, ""),
     AbsStr("ftp", "files.example", "", PathX, ""),
     FragStr("top"), RelStr(PathX), EmptyStr, BadStr}

\* anchors of every shape, with the one-character path
ShapeAnchors ==
    {Anchor(TRUE, a, FALSE) : a \in HrefAttributes}
    \cup {Anchor(TRUE, a, TRUE) : a \in {CrossUrl, SiteUrl, FragStr("top")}}
    \cup {Anchor(FALSE, EmptyStr, d) : d \in BOOLEAN}

\* cross-origin https anchors with every path
PathAnchors ==
    {Anchor(TRUE, AbsStr("https", "other.example", "", p, ""), FALSE) :
        p \in PathsUpTo(MaxPathLen)}

PrimaryAnchor == Anchor(TRUE, CrossUrl, FALSE)

\* DOM events: a primary click, a middle and a right auxclick, Enter and
\* another key
DomEvents ==
    {[type |-> "click", button |-> 0, key |-> ""],
     [type |-> "auxclick", button |-> 1, key |-> ""],
     [type |-> "auxclick", button |-> 2, key |-> ""],
     [type |-> "keydown", button |-> 0, key |-> "Enter"],
     [type |-> "keydown", button |-> 0, key |-> "Tab"]}

PrimaryClick == [type |-> "click", button |-> 0, key |-> ""]

SendOutcomes == {"ok", "invalidated", "noReceiver", "other"}
AllDelivered == [i \in 1..maxRetries |-> "ok"]

\* an input of the content script: the event, how far its target lies
\* below the anchor (-1: no anchor above it), the anchor, and what the
\* successive runtime.sendMessage calls do
DomInput(event, dist, anchor, outcomes) ==
    [event |-> event, dist |-> dist, anchor |-> anchor, outcomes |-> outcomes]

\* clicks on anchors of every shape; clicks at every distance from the
\* cross-origin anchor and every event on it and on its child; a click on
\* it under every messaging outcome
ShapeInputs ==
    {DomInput(PrimaryClick, 0, a, AllDelivered) : a \in ShapeAnchors}
    \cup {DomInput(PrimaryClick, d, PrimaryAnchor, AllDelivered) : d \in -1..MaxDist}
    \cup {DomInput(e, d, PrimaryAnchor, AllDelivered) : e \in DomEvents, d \in 0..1}
    \cup {DomInput(PrimaryClick, 0, PrimaryAnchor, o) : o \in [1..maxRetries -> SendOutcomes]}

\* clicks on and inside the cross-origin anchors with every path
PathInputs == {DomInput(PrimaryClick, d, a, AllDelivered) : a \in PathAnchors, d \in 0..1}

\* the observed page: its location, and its base URI, which a <base>
\* element may point elsewhere
Pages ==
    {[location |-> SiteUrl, baseURI |-> SiteUrl],
     [location |-> SiteUrl, baseURI |-> AbsStr("https", "cdn.example", "", PathX, "")]}

\* settings a content script can hold: from storage, or as a
\* SETTINGS_UPDATED message carried them
ContentSettingsSpace ==
    {MkSettings(m, e, "true", "false") : m \in {"all", "context", "alt", "absent"},
                                         e \in {"true", "false", "absent"}}
    \cup {MkSettings("all", "true", "false", "true"),
          MkSettings("all", "true", "false", "false")}

AllOk == Env(TRUE, TRUE, TRUE, TRUE, TRUE, TRUE, TRUE, TRUE, <<>>, TRUE, TRUE)

\* the sender's tab: there and navigable, missing, or there and
\* tabs.update fails
TabEnvs ==
    {AllOk, [AllOk EXCEPT !.hasTab = FALSE], [AllOk EXCEPT !.tabsOk = FALSE]}

\* the environments that differ in what a forward of this build reads: for
\* the Safari build the native app opens the URL, or native messaging
\* fails, or NSWorkspace.open does, or the handler's response is lost, each
\* with every tab
ForwardEnvs(plat) ==
    IF plat = "safari"
    THEN {AllOk} \cup {[e EXCEPT !.nativeOk = FALSE] : e \in TabEnvs}
                 \cup {[e EXCEPT !.replyOk = FALSE] : e \in TabEnvs}
                 \cup {[e EXCEPT !.openOk = FALSE] : e \in TabEnvs}
    ELSE TabEnvs

\* the environments that differ in what the handling of this message reads;
\* a content script's message always has a sender tab
MessageEnvs(plat, message, from) ==
    IF message.type = "CAPTURE_LINK"
    THEN {e \in ForwardEnvs(plat) : from = "content" => e.hasTab}
    ELSE IF message.type = "GET_SETTINGS" THEN {[AllOk EXCEPT !.getOk = g] : g \in BOOLEAN}
    ELSE IF message.type = "TOGGLE_EXTENSION"
    THEN {[AllOk EXCEPT !.setOk = w, !.iconOk = i] : w \in BOOLEAN, i \in BOOLEAN}
    ELSE IF message.type = "SETTINGS_UPDATED"
    THEN {[AllOk EXCEPT !.tabReachable = r] : r \in BOOLEAN}
    ELSE {AllOk}

\* URL texts a message or a context-menu click may carry
CarriedUrls ==
    {CrossUrl, AbsStr("http", "example.com", "8080", PathX, ""),
     AbsStr("javascript", "", "", PathX, ""),
     AbsStr("ftp", "files.example", "", PathX, ""), BadStr}

\* CAPTURE_LINK messages of the popup and options pages and of any other
\* extension page
CaptureMessages ==
    {Message("CAPTURE_LINK", TRUE, u, t, "absent", DefaultSettings) :
        u \in CarriedUrls, t \in BOOLEAN}
    \cup {Message("CAPTURE_LINK", FALSE, BadStr, FALSE, "absent", DefaultSettings)}

\* settings that SETTINGS_UPDATED messages carry: the popup's full record
CarriedSettings == {MkSettings("all", "true", "true", "false")}

SettingsMessages ==
    {Message("GET_SETTINGS", FALSE, BadStr, FALSE, "absent", DefaultSettings),
     Message("PING", FALSE, BadStr, FALSE, "absent", DefaultSettings)}
    \cup {Message("TOGGLE_EXTENSION", FALSE, BadStr, FALSE, e, DefaultSettings) :
            e \in {"absent", "true", "false"}}
    \cup {Message("SETTINGS_UPDATED", FALSE, BadStr, FALSE, "absent", s) :
            s \in CarriedSettings}

\* context-menu clicks: the extension's entry or another id, with a link
\* URL or without
MenuInfos ==
    {[menuItemId |-> menuItemId, hasLinkUrl |-> TRUE, linkUrl |-> u] : u \in CarriedUrls}
    \cup {[menuItemId |-> "other-item", hasLinkUrl |-> TRUE, linkUrl |-> CrossUrl],
          [menuItemId |-> menuItemId, hasLinkUrl |-> FALSE, linkUrl |-> BadStr]}

\* messages to the native handler
NativeMessages ==
    {[type |-> "FORWARD_URL", hasUrl |-> TRUE, url |-> u] :
        u \in CarriedUrls \cup {AbsStr("HTTPS", "site.test", "", PathX, "")}}
    \cup {[type |-> "PING", hasUrl |-> TRUE, url |-> CrossUrl],
          [type |-> "FORWARD_URL", hasUrl |-> FALSE, url |-> BadStr]}

\* records the store may hold when the extension starts
StoredRecords ==
    {EmptyRecord,
     [linkMode |-> "context", enabled |-> FALSE, visualFeedback |-> TRUE,
      soundFeedback |-> FALSE, version |-> "1.0.0"]}

\* the Safari content script's captureLink after the response arrived: the
\* error it shows ("" for none)
captureLinkResponse(responses) ==
    IF responses # <<>> /\ responses[1].tag = "capture" /\ responses[1].success
    THEN "" ELSE "errorProxlyNotRunning"

\* handleStorageChange of the background script: the settings cache, badge
\* and menu title it leaves.  The Safari script follows the four fields;
\* the Manifest V3 script only retitles the menu.
handleStorageChange(plat, settings, badge, title, changes, env) ==
    IF plat = "safari" THEN
        [settings |-> Spread(settings, [k \in DOMAIN changes \cap SettingsFields |-> changes[k]]),
         badge |-> IF "enabled" \in DOMAIN changes /\ changes.enabled # settings.enabled
                      /\ env.iconOk
                   THEN BadgeFor(changes.enabled) ELSE badge,
         title |-> IF "linkMode" \in DOMAIN changes /\ changes.linkMode # settings.linkMode
                   THEN TitleFor(changes.linkMode) ELSE title]
    ELSE
        [settings |-> settings, badge |-> badge,
         title |-> IF "linkMode" \in DOMAIN changes
                   THEN TitleFor(changes.linkMode) ELSE title]

\* handleInstallation: the storage.sync.set it makes and the menu title it
\* leaves
handleInstallation(plat, reason, title, env) ==
    IF reason = "install"
    THEN [write |-> IF env.setOk THEN InstallDefaults ELSE EmptyRecord,
          title |-> IF plat = "safari" THEN "Open with Proxly" ELSE title]
    ELSE [write |-> EmptyRecord, title |-> title]

----------------------------------------------------------------------------
(* The state machine.                                                      *)

\* a storage.sync.set: the store merges the written keys, and the
\* storage.onChanged listeners are notified of the keys that changed; the
\* notification to the content script is lost when notified is false
StorageSetNotifying(write, notified) ==
    LET changes == StorageChanges(storage, write) IN
    /\ storage' = Spread(storage, write)
    /\ IF DOMAIN changes = {}
       THEN UNCHANGED <<storageEvents, backgroundEvents>>
       ELSE /\ Len(backgroundEvents) < MaxQueue
            /\ backgroundEvents' = Append(backgroundEvents, changes)
            /\ IF notified
               THEN /\ Len(storageEvents) < MaxQueue
                    /\ storageEvents' = Append(storageEvents, changes)
               ELSE UNCHANGED storageEvents

\* a storage.sync.set whose notifications all arrive
StorageSet(write) == StorageSetNotifying(write, TRUE)

\* what a run of handleRuntimeMessage leaves in the background script and
\* in the content script of the observed tab
CommitRelay(effect) ==
    /\ backgroundSettings' = effect.settings
    /\ badgeText' = effect.badge
    /\ menuTitle' = effect.title
    /\ contentSettings' = IF effect.delivered # <<>>
                          THEN ContentSettingsUpdated(contentSettings, effect.delivered[1])
                          ELSE contentSettings

\* what a run of handleRuntimeMessage leaves in the extension
Commit(effect) ==
    /\ CommitRelay(effect)
    /\ StorageSet(effect.write)

\* a DOM event on the observed page
DomEvent(inputs) ==
    \E i \in inputs :
        LET chain == TargetChain(i.dist)
            runs == ListenerRuns(i.event, chain)
        IN  /\ Len(toBackground) <= MaxInFlight
            /\ \E r \in {IF runs
                          THEN handleLinkClick(platform, contentSettings, page, chain,
                                               i.anchor, i.outcomes)
                          ELSE NoCapture(FALSE, runs, FALSE, BadStr, "")} :
                   /\ Len(toBackground) + Len(r.sent) <= MaxInFlight
                   /\ toBackground' = toBackground \o r.sent
                   /\ ev' = [kind |-> "click", in |-> i, runs |-> runs,
                             settings |-> contentSettings, out |-> r]
                   /\ UNCHANGED <<ui, relay, platform, page, contentSettings, backgroundSettings,
                                  storage, badgeText, menuTitle, storageEvents,
                                  backgroundEvents>>

\* the background script handles a message in an environment
HandleIn(message, from, env) ==
    \E effect \in {handleRuntimeMessage(platform, backgroundSettings, storage,
                                        badgeText, menuTitle, message, env)} :
        /\ Commit(effect)
        /\ ev' = [kind |-> "message", from |-> from, message |-> message,
                  env |-> env, settings |-> backgroundSettings, out |-> effect,
                  contentError |-> IF from = "content"
                                   THEN captureLinkResponse(effect.responses)
                                   ELSE ""]

\* the background script handles a message
Handle(message, from) ==
    \E env \in MessageEnvs(platform, message, from) : HandleIn(message, from, env)

\* the CAPTURE_LINK message of the content script reaches the background
\* script, and its response the content script
BackgroundReceives ==
    /\ relay.listening
    /\ toBackground # <<>>
    /\ Handle(Head(toBackground), "content")
    /\ toBackground' = Tail(toBackground)
    /\ UNCHANGED <<ui, relay, platform, page>>

\* a message of the popup, the options page or any other sender
UiMessage(messages) ==
    /\ relay.listening
    /\ \E message \in messages : Handle(message, "page")
    /\ UNCHANGED <<ui, relay, platform, page, toBackground>>

\* a click on an entry of the context menu
ContextMenuClick ==
    /\ relay.listening
    /\ relay.menu
    /\ \E info \in MenuInfos, env \in ForwardEnvs(platform) :
        /\ ev' = [kind |-> "menu", info |-> info, env |-> env,
                  settings |-> backgroundSettings,
                  out |-> handleContextMenuClick(platform, info, env)]
        /\ UNCHANGED <<ui, relay, platform, page, contentSettings, backgroundSettings, storage,
                       badgeText, menuTitle, toBackground, storageEvents,
                       backgroundEvents>>

\* a message reaches the native handler of the Safari build
NativeRequest ==
    /\ platform = "safari"
    /\ \E message \in NativeMessages, openOk \in BOOLEAN :
        ev' = [kind |-> "native", message |-> message, openOk |-> openOk,
               out |-> handleExtensionMessage(message, openOk)]
    /\ UNCHANGED <<ui, relay, platform, page, contentSettings, backgroundSettings, storage,
                   badgeText, menuTitle, toBackground, storageEvents, backgroundEvents>>

\* storage.onChanged reaches the content script
ContentStorageChange ==
    /\ storageEvents # <<>>
    /\ contentSettings' = ContentStorageListener(contentSettings, Head(storageEvents))
    /\ storageEvents' = Tail(storageEvents)
    /\ ev' = [kind |-> "contentStorage", changes |-> Head(storageEvents),
              settings |-> contentSettings]
    /\ UNCHANGED <<ui, relay, platform, page, backgroundSettings, storage, badgeText, menuTitle,
                   toBackground, backgroundEvents>>

\* storage.onChanged reaches the background script
BackgroundStorageChange ==
    /\ relay.listening
    /\ backgroundEvents # <<>>
    /\ \E iconOk \in BOOLEAN :
        LET r == handleStorageChange(platform, backgroundSettings, badgeText, menuTitle,
                                     Head(backgroundEvents), [AllOk EXCEPT !.iconOk = iconOk])
        IN  /\ backgroundSettings' = r.settings
            /\ badgeText' = r.badge
            /\ menuTitle' = r.title
            /\ ev' = [kind |-> "backgroundStorage", changes |-> Head(backgroundEvents),
                      iconOk |-> iconOk, settings |-> backgroundSettings]
    /\ backgroundEvents' = Tail(backgroundEvents)
    /\ UNCHANGED <<ui, relay, platform, page, contentSettings, storage, toBackground, storageEvents>>

\* runtime.onInstalled
Installed ==
    /\ relay.listening
    /\ \E reason \in {"install", "update"}, setOk \in BOOLEAN :
        LET r == handleInstallation(platform, reason, menuTitle,
                                    [AllOk EXCEPT !.setOk = setOk])
        IN  /\ StorageSet(r.write)
            /\ menuTitle' = r.title
            /\ relay' = [relay EXCEPT !.menu = @ \/ (platform = "safari" /\ reason = "install")]
            /\ ev' = [kind |-> "installed", reason |-> reason, setOk |-> setOk]
            /\ UNCHANGED <<ui, platform, page, contentSettings, backgroundSettings,
                           badgeText, toBackground>>

\* the link paths: any content-script settings on any page, every anchor
\* shape, and every sender of a URL
InitCapture ==
    /\ platform \in Platforms
    /\ page \in Pages
    /\ contentSettings \in ContentSettingsSpace
    /\ storage = contentSettings
    /\ backgroundSettings = LoadedSettings(storage)
    /\ badgeText = BadgeFor(backgroundSettings.enabled)
    /\ menuTitle = "Open with Proxly"
    /\ relay = Serving
    /\ ui = NoPages
    /\ toBackground = <<>>
    /\ storageEvents = <<>>
    /\ backgroundEvents = <<>>
    /\ ev = [kind |-> "init"]

NextCapture ==
    \/ DomEvent(ShapeInputs)
    \/ BackgroundReceives
    \/ UiMessage(CaptureMessages)
    \/ ContextMenuClick
    \/ NativeRequest

SpecCapture == InitCapture /\ [][NextCapture]_vars

\* the encoding paths: an enabled 'all'-mode content script on a page that
\* holds one cross-origin link, of any path
InitEncode ==
    /\ platform \in Platforms
    /\ page \in {[location |-> SiteUrl, baseURI |-> SiteUrl, links |-> {a}] :
                    a \in PathAnchors}
    /\ contentSettings = DefaultSettings
    /\ storage = InstallDefaults
    /\ backgroundSettings = LoadedSettings(storage)
    /\ badgeText = BadgeFor(backgroundSettings.enabled)
    /\ menuTitle = "Open with Proxly"
    /\ relay = Serving
    /\ ui = NoPages
    /\ toBackground = <<>>
    /\ storageEvents = <<>>
    /\ backgroundEvents = <<>>
    /\ ev = [kind |-> "init"]

NextEncode ==
    \/ DomEvent({i \in PathInputs : i.anchor \in page.links})
    \/ BackgroundReceives

SpecEncode == InitEncode /\ [][NextEncode]_vars

\* messages of every type: the settings messages, and CAPTURE_LINK with a
\* valid URL, as a test, with another scheme and without a URL
RelayMessages ==
    SettingsMessages
    \cup {Message("CAPTURE_LINK", TRUE, CrossUrl, t, "absent", DefaultSettings) :
            t \in BOOLEAN}
    \cup {Message("CAPTURE_LINK", TRUE, AbsStr("ftp", "files.example", "", PathX, ""),
                  FALSE, "absent", DefaultSettings),
          Message("CAPTURE_LINK", FALSE, BadStr, FALSE, "absent", DefaultSettings)}

\* clicks on a cross-origin and on a same-origin link
SettingsInputs ==
    {DomInput(PrimaryClick, 0, a, AllDelivered) :
        a \in {PrimaryAnchor, Anchor(TRUE, SiteUrl, FALSE)}}

\* the settings paths: the extension as it starts with any stored record
InitSettings ==
    /\ platform \in Platforms
    /\ page = [location |-> SiteUrl, baseURI |-> SiteUrl]
    /\ storage \in StoredRecords
    /\ contentSettings = ContentLoadedSettings(storage)
    /\ backgroundSettings = LoadedSettings(storage)
    /\ badgeText = BadgeFor(backgroundSettings.enabled)
    /\ menuTitle = "Open with Proxly"
    /\ relay = Serving
    /\ ui = NoPages
    /\ toBackground = <<>>
    /\ storageEvents = <<>>
    /\ backgroundEvents = <<>>
    /\ ev = [kind |-> "init"]

NextSettings ==
    \/ UiMessage(RelayMessages)
    \/ BackgroundReceives
    \/ ContentStorageChange
    \/ BackgroundStorageChange
    \/ DomEvent(SettingsInputs)

SpecSettings == InitSettings /\ [][NextSettings]_vars

----------------------------------------------------------------------------
(* The capture predicate: claims C1 to C5.                                 *)

\* the href attribute of the clicked anchor, resolved against the document
\* base URI
ResolvedTarget == ParseUrl(ev.in.anchor.attr, page.baseURI)

\* the last step was a DOM event whose handler called shouldCaptureLink
PredicateRan == ev.kind = "click" /\ ev.out.called

\* the case of C1: enabled is true, linkMode is 'all', the anchor has an
\* href and no download attribute, and its target is http: or https:
AllModeHttpCase ==
    /\ PredicateRan
    /\ "enabled" \in DOMAIN ev.settings /\ ev.settings.enabled = TRUE
    /\ LinkModeOf(ev.settings) = "all"
    /\ ev.in.anchor.hasHref /\ ~ev.in.anchor.download
    /\ ResolvedTarget.ok /\ ResolvedTarget.url.scheme \in {"http", "https"}

C2_DisabledNeverCaptures ==
    (PredicateRan /\ "enabled" \in DOMAIN ev.settings /\ ev.settings.enabled = FALSE)
        => ~ev.out.decision

\* C2 witness: a disabled content script saw a click on a cross-origin
\* https link in 'all' mode
C2_Witness ==
    /\ PredicateRan
    /\ "enabled" \in DOMAIN ev.settings /\ ev.settings.enabled = FALSE
    /\ LinkModeOf(ev.settings) = "all"
    /\ ev.in.anchor = PrimaryAnchor
    /\ ~ev.out.decision

\* C3: when linkMode is 'context', or any value other than 'all', a click,
\* middle-click or Enter never captures, not even a cross-origin http link
\* with enabled = true; the context-menu path still forwards the link
\* whenever its URL passes the http/https validity check.
C3_ContextModeOnlyMenuForwards ==
    /\ (ev.kind = "click" /\ LinkModeOf(ev.settings) # "all") =>
            /\ ~ev.out.decision
            /\ ~ev.out.prevented
            /\ ev.out.handed = <<>>
            /\ ev.out.sent = <<>>
    /\ (/\ ev.kind = "menu"
        /\ ev.settings.linkMode # "all"
        /\ ev.info.menuItemId = menuItemId
        /\ ev.info.hasLinkUrl
        /\ ParseUrl(ev.info.linkUrl, NoBase).ok
        /\ ParseUrl(ev.info.linkUrl, NoBase).url.scheme \in {"http", "https"}) =>
            /\ ev.out.forwarded
            /\ (ev.env.hasTab /\ ev.env.tabsOk) =>
                    (ev.out.handed # <<>>
                     /\ \A i \in 1..Len(ev.out.handed) : ev.out.handed[i].url = ev.info.linkUrl)

\* C3 witness: in 'context' mode with enabled = true, a click on a
\* cross-origin link reached the predicate
C3_Witness ==
    /\ PredicateRan
    /\ LinkModeOf(ev.settings) = "context"
    /\ "enabled" \in DOMAIN ev.settings /\ ev.settings.enabled = TRUE
    /\ ev.in.anchor = PrimaryAnchor
    /\ ~ev.out.decision

\* C4: an anchor without an href attribute is never captured, whatever the
\* settings and the page origin.
C4_NoHrefNeverCaptured ==
    (PredicateRan /\ ~ev.in.anchor.hasHref) => ~ev.out.decision

\* C4 witness: an enabled 'all'-mode script on a page whose base URI is
\* cross-origin saw a click on an anchor without href
C4_Witness ==
    /\ PredicateRan
    /\ ~ev.in.anchor.hasHref /\ ~ev.in.anchor.download
    /\ "enabled" \in DOMAIN ev.settings /\ ev.settings.enabled = TRUE
    /\ LinkModeOf(ev.settings) = "all"
    /\ Origin(page.baseURI) # Origin(page.location)
    /\ ~ev.out.decision

\* C5: an anchor whose href has the scheme javascript:, mailto: or tel:, or
\* whose href attribute starts with '#', is never captured, whatever
\* linkMode, enabled, the page origin and the document base URI.
C5_SpecialAndFragmentLinksNeverCaptured ==
    (/\ PredicateRan
     /\ ev.in.anchor.hasHref
     /\ \/ ev.in.anchor.attr.kind = "frag"
        \/ /\ ev.in.anchor.attr.kind = "abs"
           /\ ToLowerCaseWord(ev.in.anchor.attr.scheme) \in {"javascript", "mailto", "tel"})
        => ~ev.out.decision

----------------------------------------------------------------------------
(* What reaches the external app: claim C6.                                *)

\* what the last step handed to the external app
HandedNow ==
    IF ev.kind \in {"click", "message", "menu", "native"} THEN ev.out.handed ELSE <<>>

\* the text parses as a URL whose scheme is http or https
ParsesAsHttp(str) ==
    LET u == ParseUrl(str, NoBase) IN
    IF u.ok THEN u.url.scheme \in {"http", "https"} ELSE FALSE

\* C6: every URL handed to the external app, by the click capture, the
\* context menu, a CAPTURE_LINK message or a FORWARD_URL request to the
\* native handler, has parsed as a URL and has the scheme http or https; a
\* menu click or a message that carries any other URL forwards nothing.
C6_OnlyHttpUrlsAreHanded ==
    /\ \A i \in 1..Len(HandedNow) : ParsesAsHttp(HandedNow[i].url)
    /\ (ev.kind = "menu" /\ ~(ev.info.hasLinkUrl /\ ParsesAsHttp(ev.info.linkUrl))) =>
            (~ev.out.forwarded /\ ev.out.handed = <<>>)
    /\ (/\ ev.kind = "message"
        /\ ev.message.type = "CAPTURE_LINK"
        /\ ~(ev.message.hasUrl /\ ParsesAsHttp(ev.message.url))) =>
            ev.out.handed = <<>>
    /\ (/\ ev.kind = "native"
        /\ ~(ev.message.hasUrl /\ ParsesAsHttp(ev.message.url))) =>
            ev.out.handed = <<>>

\* C6 witness: the CAPTURE_LINK message of a click capture reached the
\* native handler, which handed the URL over
C6_Witness ==
    /\ ev.kind = "message" /\ ev.from = "content"
    /\ ev.message.type = "CAPTURE_LINK"
    /\ Len(ev.out.handed) = 1
    /\ ev.out.handed[1].via = "native"
    /\ ev.out.handed[1].url = ev.message.url

----------------------------------------------------------------------------
(* The forwarding URI: claim C7.                                           *)

\* the forwarding URI decodes, as standard base64 of UTF-8 text after
\* "proxly://open/", to exactly the characters of the URL
DecodesTo(uri, url) ==
    /\ ReceiverDecode(uri).ok
    /\ ReceiverDecode(uri).chars = StringChars(url)

\* C7: for every captured URL u, also with '?', '&', '%' and unicode in its
\* path, the forwarder is called with exactly the anchor's resolved URL and
\* builds "proxly://open/" followed by the standard base64 of u, from which
\* decoding yields u exactly; the encoding never fails for a URL that
\* passed the validity check.
C7_ForwardingUriRoundTrips ==
    /\ (ev.kind = "click" /\ ev.out.decision /\ ParsesAsHttp(ResolvedTarget.url)) =>
            /\ ev.out.url = ResolvedTarget.url
            /\ platform = "universal" =>
                    /\ ev.out.error = ""
                    /\ Len(ev.out.handed) = 1
                    /\ ev.out.handed[1].url = ResolvedTarget.url
                    /\ DecodesTo(ev.out.handed[1].uri, ResolvedTarget.url)
            /\ \A i \in 1..Len(ev.out.sent) : ev.out.sent[i].url = ResolvedTarget.url
    /\ (ev.kind = "message" /\ ev.from = "content") =>
            /\ \A i \in 1..Len(ev.out.handed) :
                    /\ ev.out.handed[i].url = ev.message.url
                    /\ DecodesTo(ev.out.handed[i].uri, ev.message.url)
            /\ ((ev.env.nativeOk /\ ev.env.openOk) \/ ev.env.tabsOk) =>
                    Len(ev.out.handed) >= 1

\* C7 witness: a captured link with a unicode path segment was forwarded
C7_Witness ==
    /\ ev.kind = "click" /\ ev.out.decision
    /\ \E i \in 1..Len(ev.in.anchor.attr.path) : ev.in.anchor.attr.path[i] > 255
    /\ \E i \in 1..Len(ev.in.anchor.attr.path) : ev.in.anchor.attr.path[i] = 37
    /\ Len(ev.out.handed) = 1
    /\ DecodesTo(ev.out.handed[1].uri, ResolvedTarget.url)

----------------------------------------------------------------------------
(* The background script's messages: claims C8 to C10.                     *)

\* the last step handled a TOGGLE_EXTENSION message whose storage write
\* went through
ToggleHandled ==
    /\ ev.kind = "message"
    /\ ev.message.type = "TOGGLE_EXTENSION"
    /\ ev.env.setOk

\* C8: a background script with enabled = true that receives
\* TOGGLE_EXTENSION without an enabled field sets enabled to false,
\* persists {enabled: false} and responds {enabled: false}; once the
\* storage-change notification has reached a content script, every
\* subsequent shouldCaptureLink returns false.
C8_ToggleOffReachesContentScript ==
    /\ [](/\ (ToggleHandled /\ ev.message.enabled = "absent" /\ ev.settings.enabled = TRUE) =>
                /\ backgroundSettings.enabled = FALSE
                /\ ev.out.write = [enabled |-> FALSE]
                /\ storage.enabled = FALSE
                /\ ev.out.responses = <<ToggleResponse(FALSE)>>
          /\ (/\ ev.kind = "contentStorage"
              /\ "enabled" \in DOMAIN ev.changes
              /\ ev.changes.enabled = FALSE) => contentSettings.enabled = FALSE)
    /\ [][/\ (~Truthy(contentSettings, "enabled") /\ ev'.kind = "click") =>
                ~ev'.out.decision
          /\ (~Truthy(contentSettings, "enabled") /\ Truthy(contentSettings', "enabled")) =>
                \/ ev'.kind = "contentStorage"
                \/ ev'.kind = "message" /\ ev'.message.type = "SETTINGS_UPDATED"]_vars

\* C8 witness: an enabled content script was told by storage.onChanged that
\* enabled became false, and then refused a cross-origin link
C8_Witness ==
    /\ ev.kind = "click"
    /\ ev.in.anchor = PrimaryAnchor
    /\ ~ev.out.decision
    /\ "enabled" \in DOMAIN contentSettings /\ contentSettings.enabled = FALSE
    /\ LinkModeOf(contentSettings) = "all"
    /\ storage = [enabled |-> FALSE]
    /\ platform = "universal"

\* C9: TOGGLE_EXTENSION that carries enabled = v sets enabled to v and does
\* not flip it: the persisted value and the response {enabled} equal v.
C9_ToggleWithFieldSetsIt ==
    (ToggleHandled /\ ev.message.enabled # "absent") =>
        /\ backgroundSettings.enabled = (ev.message.enabled = "true")
        /\ "enabled" \in DOMAIN storage
        /\ storage.enabled = (ev.message.enabled = "true")
        /\ ev.out.responses = <<ToggleResponse(ev.message.enabled = "true")>>

\* the handling of the last message raised an exception: the storage write
\* of a toggle failed, or the Safari forward failed on both of its routes
HandlingRaised ==
    \/ ev.message.type = "TOGGLE_EXTENSION" /\ ~ev.env.setOk
    \/ /\ platform = "safari"
       /\ ev.message.type = "CAPTURE_LINK"
       /\ ev.message.hasUrl /\ ParsesAsHttp(ev.message.url) /\ ~ev.message.isTest
       /\ ~(ev.env.nativeOk /\ ev.env.openOk /\ ev.env.replyOk)
       /\ ~(ev.env.hasTab /\ ev.env.tabsOk)

\* C10: every inbound message gets exactly one response and no exception
\* escapes the handler; an unknown type is answered with an error payload,
\* and an exception raised while a known type is handled is caught and
\* answered with an error payload.
C10_OneResponsePerMessage ==
    ev.kind = "message" =>
        /\ Len(ev.out.responses) = 1
        /\ ev.out.thrown = ""
        /\ ev.message.type \notin {"GET_SETTINGS", "CAPTURE_LINK", "SETTINGS_UPDATED",
                                   "TOGGLE_EXTENSION"} =>
                ev.out.responses[1].tag = "error"
        /\ HandlingRaised => ev.out.responses[1].tag = "error"

\* C10 witness: the storage write of a toggle failed and the sender got an
\* error payload
C10_Witness ==
    /\ ev.kind = "message"
    /\ ev.message.type = "TOGGLE_EXTENSION"
    /\ ~ev.env.setOk
    /\ ev.out.responses = <<ErrorResponse("storage.sync.set failed")>>

----------------------------------------------------------------------------
(* CAPTURE_LINK messages: claims C11 and C12.                              *)

\* the last step handled a CAPTURE_LINK message that carries a URL which
\* parses with the scheme http or https
CaptureHandled ==
    /\ ev.kind = "message"
    /\ ev.message.type = "CAPTURE_LINK"
    /\ ev.message.hasUrl /\ ParsesAsHttp(ev.message.url)

\* C11: a CAPTURE_LINK message with isTest = true and a valid http/https
\* URL is answered {success: true, test: true} and has no side effect: the
\* forwarder is not invoked, nothing is handed to the external app, and the
\* settings cache, the store, the badge, the menu title and the content
\* script's settings are unchanged.
C11_TestPingHasNoSideEffect ==
    /\ []((CaptureHandled /\ ev.message.isTest) =>
            /\ Len(ev.out.responses) = 1
            /\ ev.out.responses[1].tag = "capture"
            /\ ev.out.responses[1].success = TRUE
            /\ ev.out.responses[1].test = TRUE
            /\ ev.out.responses[1].error = ""
            /\ ~ev.out.forwarded
            /\ ev.out.handed = <<>>
            /\ ev.out.delivered = <<>>
            /\ ev.out.write = EmptyRecord
            /\ ev.out.settings = ev.settings)
    /\ [][(CaptureHandled' /\ ev'.message.isTest) =>
            /\ backgroundSettings' = backgroundSettings
            /\ storage' = storage
            /\ storageEvents' = storageEvents
            /\ backgroundEvents' = backgroundEvents
            /\ badgeText' = badgeText
            /\ menuTitle' = menuTitle
            /\ contentSettings' = contentSettings
            /\ toBackground' = toBackground]_vars

\* C11 witness: a test ping was answered where a forward would have
\* reached the external app
C11_Witness ==
    /\ CaptureHandled /\ ev.message.isTest
    /\ ev.env = AllOk
    /\ ev.out.responses[1].test = TRUE
    /\ ev.out.handed = <<>>

\* the response of the last message reports success
AnsweredSuccess ==
    /\ Len(ev.out.responses) = 1
    /\ ev.out.responses[1].tag = "capture"
    /\ ev.out.responses[1].success = TRUE

\* C12: for a non-test CAPTURE_LINK message the background script validates
\* the URL, invokes the forwarder for a valid URL and responds with the
\* forwarder's outcome: success = true only if the forward succeeded, a
\* failed forward is answered with a non-success response, and an invalid
\* or missing URL is answered {success: false, error: 'Invalid URL'}
\* without invoking the forwarder.
C12_CaptureLinkReportsForwardOutcome ==
    (ev.kind = "message" /\ ev.message.type = "CAPTURE_LINK" /\ ~ev.message.isTest) =>
        IF ev.message.hasUrl /\ ParsesAsHttp(ev.message.url)
        THEN /\ ev.out.forwarded
             /\ Len(ev.out.responses) = 1
             /\ AnsweredSuccess <=> ev.out.handed # <<>>
        ELSE /\ ~ev.out.forwarded
             /\ ev.out.handed = <<>>
             /\ Len(ev.out.responses) = 1
             /\ ev.out.responses[1].tag = "capture"
             /\ ev.out.responses[1].success = FALSE
             /\ ev.out.responses[1].error = "Invalid URL"

----------------------------------------------------------------------------
(* SETTINGS_UPDATED and the broadcast: claims C13 and C14.                 *)

\* the last step handled a SETTINGS_UPDATED message
SettingsUpdatedHandled ==
    ev.kind = "message" /\ ev.message.type = "SETTINGS_UPDATED"

\* C13: after the background script handles SETTINGS_UPDATED {settings},
\* its settings cache holds every field of the message's settings, merged
\* over the previous cache; the badge shows 'OFF' exactly when the
\* resulting enabled is false, the menu title matches the resulting
\* linkMode, and the sender receives {received: true}.
C13_SettingsUpdatedMergesIntoCache ==
    SettingsUpdatedHandled =>
        /\ \A f \in DOMAIN ev.message.settings :
                /\ f \in DOMAIN backgroundSettings
                /\ backgroundSettings[f] = ev.message.settings[f]
        /\ \A f \in DOMAIN ev.settings \ DOMAIN ev.message.settings :
                /\ f \in DOMAIN backgroundSettings
                /\ backgroundSettings[f] = ev.settings[f]
        /\ (badgeText = "OFF") <=> (backgroundSettings.enabled = FALSE)
        /\ menuTitle = TitleFor(backgroundSettings.linkMode)
        /\ ev.out.responses = <<ReceivedResponse>>

\* the open tabs besides the observed one, each reachable or not
OtherTabs == UNION {[1..n -> BOOLEAN] : n \in 0..(MaxTabs - 1)}

\* the environments of a broadcast: tabs.query works or not, and every
\* tab's content script is attached or detached
BroadcastEnvs ==
    {[AllOk EXCEPT !.tabReachable = r, !.otherTabs = o, !.queryOk = q] :
        r \in BOOLEAN, o \in OtherTabs, q \in BOOLEAN}

\* SETTINGS_UPDATED messages of the popup and options pages, with every
\* link mode and enabled state
UpdateMessages ==
    {Message("SETTINGS_UPDATED", FALSE, BadStr, FALSE, "absent",
             MkSettings(m, e, "true", "false")) :
        m \in {"all", "context"}, e \in {"true", "false"}}

\* a page sends SETTINGS_UPDATED while any number of tabs are open
Broadcast ==
    /\ \E message \in UpdateMessages, env \in BroadcastEnvs :
            HandleIn(message, "page", env)
    /\ UNCHANGED <<ui, relay, platform, page, toBackground>>

NextBroadcast == Broadcast

\* the broadcast paths: the extension as it starts with any stored record,
\* and settings updates from its pages
SpecBroadcast == InitSettings /\ [][NextBroadcast]_vars

\* C14: broadcastSettingsUpdate attempts delivery of SETTINGS_UPDATED to
\* every open tab exactly once; a failed delivery is counted as a soft
\* failure, does not stop delivery to the remaining tabs, is not retried,
\* and does not turn the response to the caller into an error.
C14_BroadcastReachesEveryTabOnce ==
    SettingsUpdatedHandled =>
        /\ ev.out.thrown = ""
        /\ Len(ev.out.responses) = 1
        /\ ev.out.responses[1].tag = "received"
        /\ ev.env.queryOk =>
            LET tabs == OpenTabs(ev.env)
                b == ev.out.broadcast
            IN  /\ Len(b.attempts) = Len(tabs)
                /\ \A t \in 1..Len(tabs) :
                        Cardinality({k \in 1..Len(b.attempts) : b.attempts[k] = t}) = 1
                /\ b.reached = {t \in 1..Len(tabs) : tabs[t]}
                /\ b.successCount = Cardinality({t \in 1..Len(tabs) : tabs[t]})
                /\ b.errorCount = Cardinality({t \in 1..Len(tabs) : ~tabs[t]})
                /\ (tabs[1] => contentSettings = ev.message.settings)

\* C14 witness: of three open tabs the second has no content script; the
\* broadcast counted 2 successes and 1 failure and the caller was answered
\* {received: true}
C14_Witness ==
    /\ SettingsUpdatedHandled
    /\ ev.env.queryOk
    /\ OpenTabs(ev.env) = <<TRUE, FALSE, TRUE>>
    /\ ev.out.broadcast.attempts = <<1, 2, 3>>
    /\ ev.out.broadcast.successCount = 2
    /\ ev.out.broadcast.errorCount = 1
    /\ ev.out.responses[1].tag = "received"

----------------------------------------------------------------------------
(* Convergence of the settings copies: claim C15.                          *)

\* the record the popup holds after its loadSettings: the response of
\* GET_SETTINGS, which is the background script's loadSettings
PopupLoadedSettings(result) == LoadedSettings(result)

\* for one update, which of its two notifications to the content script
\* arrive: the storage.onChanged event and the SETTINGS_UPDATED message;
\* never both lost
Deliveries ==
    {[event |-> e, message |-> m] : e \in BOOLEAN, m \in BOOLEAN} \
        {[event |-> FALSE, message |-> FALSE]}

\* handleModeChange of a freshly opened popup: the full record goes to
\* storage.sync.set, then SETTINGS_UPDATED to the background script, which
\* broadcasts it
PopupModeChange ==
    /\ toBackground = <<>>
    /\ \E newMode \in {"all", "context"}, arrives \in Deliveries :
        LET settings == Spread(PopupLoadedSettings(storage), [linkMode |-> newMode])
            message == Message("SETTINGS_UPDATED", FALSE, BadStr, FALSE, "absent", settings)
            env == [AllOk EXCEPT !.tabReachable = arrives.message]
        IN  \E effect \in {handleRuntimeMessage(platform, PopupLoadedSettings(storage),
                                                Spread(storage, settings), badgeText,
                                                menuTitle, message, env)} :
                /\ StorageSetNotifying(settings, arrives.event)
                /\ CommitRelay(effect)
                /\ ev' = [kind |-> "modeChange", newMode |-> newMode,
                          arrives |-> arrives, settings |-> settings]
    /\ UNCHANGED <<ui, relay, platform, page, toBackground>>

\* TOGGLE_EXTENSION messages without and with the enabled field
ToggleMessages ==
    {Message("TOGGLE_EXTENSION", FALSE, BadStr, FALSE, e, DefaultSettings) :
        e \in {"absent", "true", "false"}}

NextConverge ==
    \/ PopupModeChange
    \/ UiMessage(ToggleMessages)
    \/ ContentStorageChange
    \/ BackgroundStorageChange

\* the convergence paths: settings writes by the popup and by the
\* background script, and the delivery of their notifications
SpecConverge == InitSettings /\ [][NextConverge]_vars

\* no notification is in flight
Quiescent == storageEvents = <<>> /\ toBackground = <<>>

\* C15: after any sequence of settings writes by the popup and the
\* background script, once every in-flight SETTINGS_UPDATED message and
\* storage-change notification has been delivered, the content script's
\* enabled, linkMode, visualFeedback and soundFeedback equal the persisted
\* values, also when for an update one of the two channels is dropped.
C15_ContentSettingsConverge ==
    Quiescent =>
        \A f \in SettingsFields :
            /\ f \in DOMAIN contentSettings
            /\ contentSettings[f] = ContentLoadedSettings(storage)[f]

----------------------------------------------------------------------------
(* SettingsManager of the options page.  The universal build carries       *)
(* chrome/shared/settings-manager.js, the Safari build its adaptation.     *)

\* this.defaultSettings of the constructor
defaultSettings(plat) ==
    IF plat = "safari"
    THEN [linkMode |-> "all", enabled |-> TRUE, visualFeedback |-> TRUE,
          soundFeedback |-> FALSE, version |-> "1.0.0"]
    ELSE [linkMode |-> "alt", visualFeedback |-> TRUE, soundFeedback |-> FALSE,
          version |-> "1.0.0"]

\* SettingsManager.loadSettings: the stored record over the defaults, the
\* defaults when reading the store fails
ManagerLoadSettings(plat, result, getOk) ==
    IF getOk THEN Spread(defaultSettings(plat), result) ELSE defaultSettings(plat)

\* the link modes validateSettings lets through
ValidLinkModes(plat) == IF plat = "safari" THEN {"all", "context"} ELSE {"all", "alt"}

\* SettingsManager.validateSettings
validateSettings(plat, settings) ==
    LET linkMode == IF LinkModeOf(settings) \in ValidLinkModes(plat)
                    THEN settings.linkMode ELSE defaultSettings(plat).linkMode
    IN  IF plat = "safari"
        THEN [linkMode |-> linkMode,
              enabled |-> Truthy(settings, "enabled"),
              visualFeedback |-> Truthy(settings, "visualFeedback"),
              soundFeedback |-> Truthy(settings, "soundFeedback"),
              version |-> IF "version" \in DOMAIN settings
                          THEN settings.version ELSE defaultSettings(plat).version]
        ELSE [linkMode |-> linkMode,
              visualFeedback |-> Truthy(settings, "visualFeedback"),
              soundFeedback |-> Truthy(settings, "soundFeedback"),
              version |-> defaultSettings(plat).version]

\* SettingsManager.saveSettings: what it returns, the storage.sync.set it
\* makes and the settings it notifies.  When the set fails the Chrome
\* manager returns false; the Safari manager falls back to localStorage and
\* goes on to notify.
saveSettings(plat, settings, setOk) ==
    LET validatedSettings == validateSettings(plat, settings) IN
    IF setOk
    THEN [ok |-> TRUE, write |-> validatedSettings, notified |-> <<validatedSettings>>]
    ELSE IF plat = "safari"
    THEN [ok |-> TRUE, write |-> EmptyRecord, notified |-> <<validatedSettings>>]
    ELSE [ok |-> FALSE, write |-> EmptyRecord, notified |-> <<>>]

\* SettingsManager.resetSettings
resetSettings(plat, setOk) == saveSettings(plat, defaultSettings(plat), setOk)

\* records an options page may hand to saveSettings: every link mode, also
\* the legacy alias and an unknown one, flags set, cleared or missing, with
\* or without a version
SaveInputs ==
    {MkSettings(m, e, "true", "false") :
        m \in {"all", "context", "alt", "bogus"}, e \in {"true", "false"}}
    \cup {MkSettings("context", "absent", "absent", "absent"),
          Spread(MkSettings("bogus", "false", "false", "true"), [version |-> "2.0.0"])}

\* records the store may hold before a save or a reset
ManagerStoredRecords ==
    StoredRecords
    \cup {[linkMode |-> "context", enabled |-> FALSE, visualFeedback |-> FALSE,
           soundFeedback |-> TRUE, version |-> "2.0.0"]}

\* the manager stores a record and notifies: the storage.sync.set, then
\* SETTINGS_UPDATED to the background script, which broadcasts it
ManagerStore(kind, settings, setOk) ==
    LET r == IF kind = "reset" THEN resetSettings(platform, setOk)
             ELSE saveSettings(platform, settings, setOk)
    IN  \E effect \in
            {IF r.notified # <<>>
             THEN handleRuntimeMessage(platform, backgroundSettings,
                                       Spread(storage, r.write), badgeText, menuTitle,
                                       Message("SETTINGS_UPDATED", FALSE, BadStr, FALSE,
                                               "absent", r.notified[1]),
                                       AllOk)
             ELSE Effect(<<>>, "", backgroundSettings, EmptyRecord, badgeText,
                         menuTitle, FALSE, <<>>, <<>>, NoBroadcast)} :
            /\ StorageSet(r.write)
            /\ CommitRelay(effect)
            /\ ev' = [kind |-> kind, in |-> settings, setOk |-> setOk, out |-> r,
                      before |-> storage]

\* the options page saves a record
ManagerSave ==
    /\ toBackground = <<>>
    /\ \E settings \in SaveInputs, setOk \in BOOLEAN :
            ManagerStore("save", settings, setOk)
    /\ UNCHANGED <<ui, relay, platform, page, toBackground>>

\* the options page resets to defaults
ManagerReset ==
    /\ toBackground = <<>>
    /\ \E setOk \in BOOLEAN : ManagerStore("reset", EmptyRecord, setOk)
    /\ UNCHANGED <<ui, relay, platform, page, toBackground>>

\* the options page loads the settings, and loads them again
ManagerLoad ==
    /\ toBackground = <<>>
    /\ \E getOk \in BOOLEAN :
            ev' = [kind |-> "load", getOk |-> getOk, stored |-> storage,
                   out |-> ManagerLoadSettings(platform, storage, getOk),
                   again |-> ManagerLoadSettings(platform, storage, getOk)]
    /\ UNCHANGED <<ui, relay, platform, page, contentSettings, backgroundSettings, storage,
                   badgeText, menuTitle, toBackground, storageEvents, backgroundEvents>>

\* the options page: the extension as it starts with any stored record
InitManager ==
    /\ platform \in Platforms
    /\ page = [location |-> SiteUrl, baseURI |-> SiteUrl]
    /\ storage \in ManagerStoredRecords
    /\ contentSettings = ContentLoadedSettings(storage)
    /\ backgroundSettings = LoadedSettings(storage)
    /\ badgeText = BadgeFor(backgroundSettings.enabled)
    /\ menuTitle = "Open with Proxly"
    /\ relay = Serving
    /\ ui = NoPages
    /\ toBackground = <<>>
    /\ storageEvents = <<>>
    /\ backgroundEvents = <<>>
    /\ ev = [kind |-> "init"]

NextManager ==
    \/ ManagerSave
    \/ ManagerReset
    \/ ManagerLoad
    \/ ContentStorageChange
    \/ BackgroundStorageChange

SpecManager == InitManager /\ [][NextManager]_vars

----------------------------------------------------------------------------
(* The settings record: claims C16 to C19.                                 *)

\* the four fields are defined, linkMode is 'all' or 'context' and the
\* three flags are booleans
WellFormedSettings(settings) ==
    /\ SettingsFields \subseteq DOMAIN settings
    /\ settings.linkMode \in {"all", "context"}
    /\ settings.enabled \in BOOLEAN
    /\ settings.visualFeedback \in BOOLEAN
    /\ settings.soundFeedback \in BOOLEAN

\* C16: in every reachable state the in-memory settings of the background
\* script, of the content script and of a popup that has loaded them have
\* linkMode, enabled, visualFeedback and soundFeedback defined, with
\* linkMode 'all' or 'context' and boolean flags.
C16_SettingsAlwaysWellFormed ==
    /\ WellFormedSettings(backgroundSettings)
    /\ WellFormedSettings(contentSettings)
    /\ WellFormedSettings(PopupLoadedSettings(storage))

\* the four documented defaults hold in the record
IsDocumentedDefault(settings) ==
    /\ SettingsFields \subseteq DOMAIN settings
    /\ \A f \in SettingsFields : settings[f] = DefaultSettings[f]

\* C17: loading settings from an empty store yields exactly the documented
\* defaults (linkMode 'all', enabled true, visualFeedback true,
\* soundFeedback false) in the background script, the content script, the
\* popup and SettingsManager.loadSettings, and loading twice without a
\* write in between yields the same record.
C17_EmptyStoreLoadsDefaults ==
    /\ IsDocumentedDefault(LoadedSettings(EmptyRecord))
    /\ IsDocumentedDefault(ContentLoadedSettings(EmptyRecord))
    /\ IsDocumentedDefault(PopupLoadedSettings(EmptyRecord))
    /\ ev.kind = "load" =>
            /\ ev.again = ev.out
            /\ (ev.stored = EmptyRecord /\ ev.getOk) => IsDocumentedDefault(ev.out)

\* the last step was a saveSettings whose storage.sync.set went through
Saved == ev.kind = "save" /\ ev.setOk

\* C18: saveSettings with a linkMode outside the allowed set stores the
\* default linkMode 'all' and stores every other field of the input
\* (enabled, visualFeedback, soundFeedback, version) with the value
\* supplied; a field absent from the input is stored with its documented
\* default, and 'context' is accepted as valid.
C18_SaveValidatesLinkModeOnly ==
    Saved =>
        /\ "linkMode" \in DOMAIN storage
        /\ storage.linkMode = IF LinkModeOf(ev.in) \in {"all", "context"}
                              THEN ev.in.linkMode ELSE "all"
        /\ \A f \in {"enabled", "visualFeedback", "soundFeedback", "version"} :
                /\ f \in DOMAIN storage
                /\ storage[f] = IF f \in DOMAIN ev.in THEN ev.in[f] ELSE InstallDefaults[f]

\* C19: after a successful resetSettings from any prior stored record, a
\* following load returns exactly linkMode 'all', enabled true,
\* visualFeedback true and soundFeedback false: no field keeps its
\* pre-reset value.
C19_ResetRestoresDefaults ==
    (ev.kind = "reset" /\ ev.setOk) =>
        /\ IsDocumentedDefault(ManagerLoadSettings(platform, storage, TRUE))
        /\ IsDocumentedDefault(ContentLoadedSettings(storage))

----------------------------------------------------------------------------
(* The background script's start-up: claim C20.                            *)

\* createContextMenu: whether the entry exists afterwards. The universal
\* build skips create when removeAll throws; the Safari build catches that
\* and creates all the same
createContextMenu(plat, menu, removeOk, createOk) ==
    IF removeOk THEN createOk
    ELSE IF plat = "safari" THEN menu \/ createOk
    ELSE menu

\* init(): await this.loadSettings()
InitLoadSettings ==
    /\ relay.pc = "loadSettings"
    /\ \E getOk \in BOOLEAN :
        /\ backgroundSettings' = IF getOk THEN LoadedSettings(storage)
                                 ELSE backgroundSettings
        /\ ev' = [kind |-> "loadSettings", getOk |-> getOk,
                  settings |-> backgroundSettings]
    /\ relay' = [relay EXCEPT !.pc = "createContextMenu"]
    /\ UNCHANGED <<ui, platform, page, contentSettings, storage, badgeText, menuTitle,
                   toBackground, storageEvents, backgroundEvents>>

\* init(): await this.createContextMenu()
InitCreateContextMenu ==
    /\ relay.pc = "createContextMenu"
    /\ \E removeOk \in BOOLEAN, createOk \in BOOLEAN :
        LET menu == createContextMenu(platform, relay.menu, removeOk, createOk) IN
        /\ relay' = [relay EXCEPT !.menu = menu,
                                  !.pc = IF platform = "safari"
                                         THEN "updateExtensionIcon"
                                         ELSE "setupEventListeners"]
        /\ menuTitle' = IF menu THEN "Open with Proxly" ELSE menuTitle
        /\ ev' = [kind |-> "createContextMenu", removeOk |-> removeOk,
                  createOk |-> createOk]
    /\ UNCHANGED <<ui, platform, page, contentSettings, backgroundSettings, storage,
                   badgeText, toBackground, storageEvents, backgroundEvents>>

\* init() of the universal build: this.setupEventListeners()
InitSetupEventListeners ==
    /\ relay.pc = "setupEventListeners"
    /\ relay' = [relay EXCEPT !.listening = TRUE, !.pc = "updateExtensionIcon"]
    /\ ev' = [kind |-> "setupEventListeners"]
    /\ UNCHANGED <<ui, platform, page, contentSettings, backgroundSettings, storage,
                   badgeText, menuTitle, toBackground, storageEvents, backgroundEvents>>

\* init(): await this.updateExtensionIcon(this.settings.enabled)
InitUpdateExtensionIcon ==
    /\ relay.pc = "updateExtensionIcon"
    /\ \E iconOk \in BOOLEAN :
        /\ badgeText' = IF iconOk THEN BadgeFor(backgroundSettings.enabled)
                        ELSE badgeText
        /\ ev' = [kind |-> "updateExtensionIcon", iconOk |-> iconOk]
    /\ relay' = [relay EXCEPT !.pc = "done"]
    /\ UNCHANGED <<ui, platform, page, contentSettings, backgroundSettings, storage,
                   menuTitle, toBackground, storageEvents, backgroundEvents>>

\* the background script right after its constructor: the settings are the
\* constructor's, no menu entry exists, and the Safari build has already
\* registered its listeners
InitLifecycle ==
    /\ platform \in Platforms
    /\ page = [location |-> SiteUrl, baseURI |-> SiteUrl]
    /\ storage \in StoredRecords
    /\ contentSettings = ContentLoadedSettings(storage)
    /\ backgroundSettings = DefaultSettings
    /\ badgeText = ""
    /\ menuTitle = ""
    /\ toBackground = <<>>
    /\ storageEvents = <<>>
    /\ backgroundEvents = <<>>
    /\ relay = [pc |-> "loadSettings", menu |-> FALSE, listening |-> platform = "safari"]
    /\ ui = NoPages
    /\ ev = [kind |-> "init"]

NextLifecycle ==
    \/ InitLoadSettings
    \/ InitCreateContextMenu
    \/ InitSetupEventListeners
    \/ InitUpdateExtensionIcon
    \/ UiMessage(ToggleMessages)
    \/ ContextMenuClick
    \/ BackgroundStorageChange
    \/ ContentStorageChange

SpecLifecycle == InitLifecycle /\ [][NextLifecycle]_vars

\* the last step was a handler of the background script: a runtime message,
\* a context-menu click or a storage change
HandledByRelay == ev.kind \in {"message", "menu", "backgroundStorage"}

\* C20: the background script goes uninitialized -> settings-loaded ->
\* menu-ready -> serving in that order: it handles no inbound message, no
\* context-menu click and no storage-change event before loadSettings has
\* run and the context-menu entry has been registered.
C20_RelayServesOnlyAfterStartup ==
    HandledByRelay =>
        /\ relay.pc \notin {"loadSettings", "createContextMenu"}
        /\ relay.menu

----------------------------------------------------------------------------
(* Errors on the capture path: claims C21 to C23.                          *)

\* the URL handleLinkClick builds: new URL(anchor.href, document.baseURI)
CandidateUrl == ParseUrl(AnchorHref(ev.in.anchor, page.baseURI), page.baseURI)

\* the last step was a click that shouldCaptureLink accepted and whose URL
\* did not parse or is not http: or https:
AcceptedInvalidUrl ==
    /\ ev.kind = "click"
    /\ ev.out.decision
    /\ (CandidateUrl.ok => ~isValidUrl(CandidateUrl.url))

\* C21: when shouldCaptureLink accepts a click but the candidate URL fails
\* the validity check (it does not parse, or its scheme is not http or
\* https), the capture is aborted: default navigation is not prevented,
\* nothing is forwarded, and showError is invoked.
C21_InvalidUrlAbortsWithError ==
    AcceptedInvalidUrl =>
        /\ ~ev.out.prevented
        /\ ev.out.handed = <<>>
        /\ ev.out.sent = <<>>
        /\ ev.out.error # ""


\* the last step was the Safari background script handling a non-test
\* CAPTURE_LINK with a valid URL whose native forward failed: native
\* messaging threw, or the native handler answered without success
NativeForwardFailed ==
    /\ ev.kind = "message"
    /\ platform = "safari"
    /\ ev.message.type = "CAPTURE_LINK"
    /\ ev.message.hasUrl /\ isValidUrl(ev.message.url) /\ ~ev.message.isTest
    /\ ~(/\ ev.env.nativeOk /\ ev.env.replyOk
         /\ handleForwardUrl(ev.message.url, ev.env.openOk).success)

\* the direct navigation of the sender's tab goes through
FallbackGoesThrough ==
    ev.env.hasTab /\ ev.env.tabsOk /\ btoa(StringChars(ev.message.url)).ok

\* what the handling handed over through tabs.update
HandedByFallback == SelectSeq(ev.out.handed, LAMBDA h : h.via = "tabs")

\* C22: in the relayed strategy, when the native forward fails, the
\* background script makes one direct-navigation attempt and no more; when
\* it goes through the forward is answered as a success, and when it fails
\* or there is no tab the sender gets a non-success response and the
\* content script shows its error once.
C22_OneFallbackAfterNativeFailure ==
    NativeForwardFailed =>
        /\ Len(ev.out.responses) = 1
        /\ IF FallbackGoesThrough
           THEN /\ Len(HandedByFallback) = 1
                /\ HandedByFallback[1].url = ev.message.url
                /\ ev.out.responses[1].tag = "capture" /\ ev.out.responses[1].success
                /\ ev.from = "content" => ev.contentError = ""
           ELSE /\ HandedByFallback = <<>>
                /\ ~(ev.out.responses[1].tag = "capture" /\ ev.out.responses[1].success)
                /\ ev.from = "content" => ev.contentError = "errorProxlyNotRunning"

\* the native forward of a content script's message fails, tabs.update fails
\* too, and the content script shows its error
C22_Witness ==
    /\ NativeForwardFailed
    /\ ev.from = "content"
    /\ ~ev.env.tabsOk
    /\ ev.contentError = "errorProxlyNotRunning"

----------------------------------------------------------------------------
(* The content script's start-up: claims C23 and C24.                      *)

\* the outcomes of a runtime.sendMessage call: answered, or one of the
\* errors sendMessageWithRetry tells apart, or any other error
RetryOutcomes == SendOutcomes \cup {"portClosed"}

\* loadSettings of the content script when storage.sync.get throws: the
\* error leaves loadSettings
contentLoadSettingsUncaught(plat, store, getOk, send, responses) ==
    [settings |-> IF getOk THEN ContentLoadedSettings(store) ELSE DefaultSettings,
     thrown |-> ~getOk]

\* loadSettings of the content script: the record built from storage, then
\* the answer to GET_SETTINGS in its place when that differs in enabled or
\* linkMode; the defaults when storage.sync.get throws.  send is the result
\* of sendMessageWithRetry, responses what the background script answered
contentLoadSettings(plat, store, getOk, send, responses) ==
    LET fromStorage == ContentLoadedSettings(store)
        response == IF send.delivered /\ responses # <<>> /\ responses[1].tag = "settings"
                    THEN responses[1].settings ELSE EmptyRecord
        differs == /\ response # EmptyRecord
                   /\ \/ response.enabled # fromStorage.enabled
                      \/ response.linkMode # fromStorage.linkMode
    IN  [settings |-> IF ~getOk THEN DefaultSettings
                      ELSE IF differs THEN response
                      ELSE fromStorage,
         thrown |-> FALSE]

\* init() of the content script: loadSettings, then the click, auxclick and
\* keydown listeners and the settings listeners.  GET_SETTINGS is answered
\* only by a background script that listens
ContentStart ==
    /\ ~page.listeners
    /\ \E getOk \in BOOLEAN, runtimeId \in BOOLEAN, relayGetOk \in BOOLEAN,
          outcomes \in [1..maxRetries -> RetryOutcomes] :
        \E send \in {sendMessageWithRetryAlive(platform, runtimeId, outcomes)},
           effect \in {handleRuntimeMessage(
                           platform, backgroundSettings, storage, badgeText, menuTitle,
                           Message("GET_SETTINGS", FALSE, BadStr, FALSE, "absent",
                                   DefaultSettings),
                           [AllOk EXCEPT !.getOk = relayGetOk])} :
            \E r \in {contentLoadSettings(platform, storage, getOk, send,
                                          effect.responses)} :
                /\ (\E i \in 1..maxRetries : outcomes[i] = "ok") => relay.listening
                /\ contentSettings' = r.settings
                /\ backgroundSettings' = IF getOk /\ send.delivered THEN effect.settings
                                         ELSE backgroundSettings
                /\ page' = [page EXCEPT !.listeners = ~r.thrown]
                /\ ev' = [kind |-> "contentStart", getOk |-> getOk,
                          runtimeId |-> runtimeId, outcomes |-> outcomes, send |-> send,
                          answered |-> getOk /\ send.delivered, out |-> r]
    /\ UNCHANGED <<ui, relay, platform, storage, badgeText, menuTitle, toBackground,
                   storageEvents, backgroundEvents>>

\* a DOM event once the listeners are attached
StartedDomEvent == page.listeners /\ DomEvent(SettingsInputs)

\* both scripts right after their constructors: the settings are the
\* constructors', the document has no listener of the content script yet
InitStartup ==
    /\ platform \in Platforms
    /\ page = [location |-> SiteUrl, baseURI |-> SiteUrl, listeners |-> FALSE]
    /\ storage \in StoredRecords
    /\ contentSettings = DefaultSettings
    /\ backgroundSettings = DefaultSettings
    /\ badgeText = ""
    /\ menuTitle = ""
    /\ toBackground = <<>>
    /\ storageEvents = <<>>
    /\ backgroundEvents = <<>>
    /\ relay = [pc |-> "loadSettings", menu |-> FALSE, listening |-> platform = "safari"]
    /\ ui = NoPages
    /\ ev = [kind |-> "init"]

NextStartup ==
    \/ ContentStart
    \/ StartedDomEvent
    \/ BackgroundReceives
    \/ InitLoadSettings
    \/ InitCreateContextMenu
    \/ InitSetupEventListeners
    \/ InitUpdateExtensionIcon

SpecStartup == InitStartup /\ [][NextStartup]_vars

\* the last step was a start of the content script in which
\* sendMessageWithRetry ran its loop
RetryLoopRan ==
    ev.kind = "contentStart" /\ ev.getOk /\ (platform = "safari" => ev.runtimeId)

\* the errors the specification calls transient: no receiving end, and an
\* invalidated extension context
TransientErrors == {"noReceiver", "invalidated"}

\* C23: sendMessageWithRetry makes at most 2 attempts and terminates: it
\* returns the first successful response, makes a second attempt only after
\* a transient error ('receiving end does not exist' or 'context
\* invalidated'), rethrows a non-transient error after the first attempt,
\* and after 2 transient failures fails with 'All message attempts failed'.
C23_AtMostTwoAttempts ==
    RetryLoopRan =>
        LET first == ev.outcomes[1]
            second == ev.outcomes[2]
        IN  /\ ev.send.attempts \in 1..2
            /\ first = "ok" => (ev.send.delivered /\ ev.send.attempts = 1)
            /\ ev.send.attempts = 2 => first \in TransientErrors
            /\ first \notin TransientErrors \cup {"ok"} =>
                    /\ ~ev.send.delivered
                    /\ ev.send.attempts = 1
                    /\ ev.send.error = first
            /\ (first \in TransientErrors /\ second = "ok") =>
                    (ev.send.delivered /\ ev.send.attempts = 2)
            /\ (first \in TransientErrors /\ second \in TransientErrors) =>
                    /\ ~ev.send.delivered
                    /\ ev.send.attempts = 2
                    /\ ev.send.error = "All message attempts failed"


\* the last step was a start of the content script during which the store
\* read failed, or the store was read and GET_SETTINGS got no answer
StartWithFailedLoad ==
    /\ ev.kind = "contentStart"
    /\ ~ev.getOk \/ ~ev.answered

\* C24: a settings load failure never blocks initialization.  When the
\* store read fails during the content script's start it ends up with the
\* built-in defaults, when the background script does not answer
\* GET_SETTINGS with the store's values, and in both cases init() goes on
\* and attaches its listeners; likewise init() of the background script
\* goes on with the defaults when its store read fails.
C24_LoadFailureNeverBlocksInit ==
    /\ StartWithFailedLoad =>
            /\ page.listeners
            /\ contentSettings = IF ev.getOk THEN ContentLoadedSettings(storage)
                                 ELSE DefaultSettings
    /\ (ev.kind = "loadSettings" /\ ~ev.getOk) =>
            /\ relay.pc = "createContextMenu"
            /\ ev.settings = DefaultSettings => backgroundSettings = DefaultSettings

\* the content script starts while the store, which holds other values than
\* the defaults, cannot be read: it has the defaults and its listeners
C24_Witness ==
    /\ ev.kind = "contentStart"
    /\ ~ev.getOk
    /\ ContentLoadedSettings(storage) # DefaultSettings
    /\ contentSettings = DefaultSettings
    /\ page.listeners

----------------------------------------------------------------------------
(* What a captured click ends in: claims C25 to C28.                       *)

\* the last step was the background script handling the CAPTURE_LINK of a
\* click the content script had captured
CapturedClickRelayed ==
    /\ ev.kind = "message"
    /\ ev.from = "content"
    /\ ev.message.type = "CAPTURE_LINK"

\* C25: the worst outcome of a click on a link is that it is not captured
\* and navigates as usual: whenever the content script has prevented the
\* default navigation of a click, the link's URL is delivered to the
\* external app, by the relayed strategy or by the fallback.
C25_PreventedClickIsDelivered ==
    /\ (ev.kind = "click" /\ ev.out.prevented) =>
            (ev.out.handed # <<>> \/ ev.out.sent # <<>>)
    /\ CapturedClickRelayed => ev.out.handed # <<>>


\* the last step was a plain click on a cross-origin http(s) link, handled
\* by a content script that loaded its settings from an empty store or from
\* the record a fresh install writes
PlainClickOnFreshInstall ==
    /\ ev.kind = "click"
    /\ ev.in.event = PrimaryClick
    /\ ev.in.anchor = PrimaryAnchor
    /\ storage \in {EmptyRecord, InstallDefaults}
    /\ ev.settings = ContentLoadedSettings(storage)

\* C26: right-click mode is the default link-handling mode: with the
\* settings of a fresh install, or an empty store, a plain click on a
\* cross-origin http/https link is not captured; only the 'Open with
\* Proxly' context-menu action captures a link.
C26_RightClickModeIsDefault ==
    PlainClickOnFreshInstall =>
        /\ ~ev.out.decision
        /\ ~ev.out.prevented
        /\ ev.out.handed = <<>> /\ ev.out.sent = <<>>


\* enabled is false in the store and in the settings both scripts hold
DisabledEverywhere ==
    /\ "enabled" \in DOMAIN storage /\ storage.enabled = FALSE
    /\ "enabled" \in DOMAIN backgroundSettings /\ backgroundSettings.enabled = FALSE
    /\ "enabled" \in DOMAIN contentSettings /\ contentSettings.enabled = FALSE

\* C27: the enabled flag is a global off switch: in every state in which
\* the persisted and the cached enabled value are false no URL is forwarded
\* to the external app by any path, a context-menu click and a non-test
\* CAPTURE_LINK message to the background script included.
C27_DisabledForwardsNothing ==
    (DisabledEverywhere /\ ev.kind \in {"click", "menu", "message"}) =>
        /\ ev.out.handed = <<>>
        /\ ev.kind \in {"menu", "message"} => ~ev.out.forwarded


\* the feedback the settings of the handling script ask for
FeedbackAskedFor ==
    {"announce"}
    \cup (IF Truthy(ev.settings, "visualFeedback") THEN {"visual"} ELSE {})
    \cup (IF Truthy(ev.settings, "soundFeedback") THEN {"sound"} ELSE {})

\* the last step was a click for which the forwarder was invoked: it
\* handed the URL over, sent it to the background script, or failed
ForwarderInvoked ==
    /\ ev.kind = "click"
    /\ \/ ev.out.handed # <<>>
       \/ ev.out.sent # <<>>
       \/ ev.out.error = "errorProxlyNotRunning"

----------------------------------------------------------------------------
(* The context-menu entry: claim C29.                                      *)

\* C29: from the moment the context-menu entry is registered its title
\* follows the background script's linkMode: the entry carries the 'all
\* links mode active' title exactly when linkMode is 'all' and the plain
\* 'Open with Proxly' title otherwise, right after start-up with a stored
\* linkMode and after every change of linkMode.
C29_MenuTitleFollowsLinkMode ==
    relay.menu =>
        menuTitle = IF LinkModeOf(backgroundSettings) = "all"
                    THEN "Open with Proxly (all links mode active)"
                    ELSE "Open with Proxly"

----------------------------------------------------------------------------
(* The fallback of the relayed forward: claim C30.                         *)

\* what the last handling handed over through the native handler
HandedByNative == SelectSeq(ev.out.handed, LAMBDA h : h.via = "native")

\* the last step was the Safari background script forwarding a URL that the
\* native handler opened while its response did not come back
NativeReplyLost ==
    /\ ev.kind \in {"message", "menu"}
    /\ platform = "safari"
    /\ ev.out.forwarded
    /\ ev.env.nativeOk /\ ev.env.openOk /\ ~ev.env.replyOk

\* C30: the direct-navigation fallback after a failed relayed forward can
\* double-forward: nothing guards a captured link against a second
\* delivery, so when the native path has delivered the URL and the forward
\* still counts as failed, the fallback navigation delivers the same URL
\* once more.
C30_FallbackCanDoubleForward ==
    (NativeReplyLost /\ ev.env.hasTab /\ ev.env.tabsOk) =>
        /\ Len(HandedByNative) = 1
        /\ Len(HandedByFallback) = 1
        /\ HandedByNative[1].url = HandedByFallback[1].url

\* the URL of a captured click is delivered twice, by the native handler
\* and by the fallback navigation
C30_Witness ==
    /\ CapturedClickRelayed
    /\ Len(ev.out.handed) = 2
    /\ ev.out.handed[1].via = "native" /\ ev.out.handed[2].via = "tabs"
    /\ ev.out.handed[1].url = ev.message.url /\ ev.out.handed[2].url = ev.message.url


----------------------------------------------------------------------------
(* The walk from the event target to its anchor: claim C31.                *)

\* the last step was a DOM event that reached handleLinkClick
WalkRan == ev.kind = "click" /\ ev.runs

\* C31: findLinkElement returns the nearest enclosing anchor exactly when
\* that anchor is the event target or lies within 5 (maxDepth) ancestor
\* levels above it, and null when the anchor is farther away or absent.
C31_BoundedAncestorWalk ==
    WalkRan => (ev.out.found <=> ev.in.dist \in 0..maxDepth)


----------------------------------------------------------------------------
(* The feedback settings and the capture decision: claim C32.              *)

\* how a settings record spells a boolean field for MkSettings
FieldSpelling(settings, field) ==
    IF field \notin DOMAIN settings THEN "absent"
    ELSE IF settings[field] = TRUE THEN "true" ELSE "false"

\* the records that differ from settings in visualFeedback and
\* soundFeedback only
FeedbackVariants(settings) ==
    {MkSettings(IF "linkMode" \in DOMAIN settings THEN settings.linkMode ELSE "absent",
                FieldSpelling(settings, "enabled"), v, s) :
        v \in {"true", "false", "absent"}, s \in {"true", "false", "absent"}}

\* what handleLinkClick does to the event of the last step when the content
\* script holds other settings
SameClickUnder(settings) ==
    handleLinkClick(platform, settings, page, TargetChain(ev.in.dist), ev.in.anchor,
                    ev.in.outcomes)

----------------------------------------------------------------------------
(* The popup and the options page of the Safari extension.                 *)

\* loadSettings of the popup.  answer says what runtime.sendMessage did:
\* "settings" when the background script answered, "silent" when the call
\* resolved without a response, "rejected" when it threw; the popup then
\* takes the response, reads the store itself, or falls back to the
\* constructor's record
popupLoadSettings(store, answer, getOk, responses) ==
    IF answer = "settings" /\ responses # <<>> /\ responses[1].tag = "settings"
    THEN responses[1].settings
    ELSE IF answer = "silent" /\ getOk
    THEN ContentLoadedSettings(store)
    ELSE DefaultSettings

\* the popup opens: the constructor and init(), which loads the settings
\* and attaches the listeners of the toggle and of the radio buttons
PopupOpen ==
    /\ ~ui.popup.open
    /\ \E answer \in {"settings", "silent", "rejected"}, getOk \in BOOLEAN :
        \E effect \in {handleRuntimeMessage(
                           platform, backgroundSettings, storage, badgeText, menuTitle,
                           Message("GET_SETTINGS", FALSE, BadStr, FALSE, "absent",
                                   DefaultSettings),
                           AllOk)} :
            /\ answer = "settings" => relay.listening
            /\ backgroundSettings' = IF answer = "settings" THEN effect.settings
                                     ELSE backgroundSettings
            /\ ui' = [ui EXCEPT !.popup =
                        [open |-> TRUE, loadOk |-> answer = "settings" \/ (answer = "silent" /\ getOk),
                         settings |-> popupLoadSettings(storage, answer, getOk,
                                                        effect.responses)]]
            /\ ev' = [kind |-> "popupOpen", answer |-> answer, getOk |-> getOk,
                      stored |-> storage]
    /\ UNCHANGED <<relay, platform, page, contentSettings, storage, badgeText, menuTitle,
                   toBackground, storageEvents, backgroundEvents>>

\* handleModeChange of the popup: this.settings with the new mode goes to
\* storage.sync.set as a whole, then in SETTINGS_UPDATED to the background
\* script; an error of either call ends the handler
PopupHandleModeChange ==
    /\ ui.popup.open
    /\ toBackground = <<>>
    /\ \E newMode \in {"all", "context"}, setOk \in BOOLEAN, sendOk \in BOOLEAN :
        \E settings \in {Spread(ui.popup.settings, [linkMode |-> newMode])} :
        \E effect \in
            {IF setOk /\ sendOk
             THEN handleRuntimeMessage(platform, backgroundSettings,
                                       Spread(storage, settings), badgeText, menuTitle,
                                       Message("SETTINGS_UPDATED", FALSE, BadStr, FALSE,
                                               "absent", settings),
                                       AllOk)
             ELSE Effect(<<>>, "", backgroundSettings, EmptyRecord, badgeText,
                         menuTitle, FALSE, <<>>, <<>>, NoBroadcast)} :
            /\ sendOk => relay.listening
            /\ StorageSet(IF setOk THEN settings ELSE EmptyRecord)
            /\ CommitRelay(effect)
            /\ ui' = [ui EXCEPT !.popup.settings = settings]
            /\ ev' = [kind |-> "popupMode", newMode |-> newMode, setOk |-> setOk,
                      sendOk |-> sendOk, held |-> ui.popup.settings,
                      loadOk |-> ui.popup.loadOk, before |-> storage]
    /\ UNCHANGED <<relay, platform, page, toBackground>>

\* handleMainToggle of the popup: this.settings with the new enabled goes to
\* storage.sync.set as a whole, then TOGGLE_EXTENSION with the value and
\* SETTINGS_UPDATED with this.settings go to the background script
PopupHandleMainToggle ==
    /\ ui.popup.open
    /\ toBackground = <<>>
    /\ \E enabled \in BOOLEAN, setOk \in BOOLEAN, sendOk \in BOOLEAN :
        \E settings \in {Spread(ui.popup.settings, [enabled |-> enabled])} :
        \E toggled \in
            {IF setOk /\ sendOk
             THEN handleRuntimeMessage(platform, backgroundSettings,
                                       Spread(storage, settings), badgeText, menuTitle,
                                       Message("TOGGLE_EXTENSION", FALSE, BadStr, FALSE,
                                               IF enabled THEN "true" ELSE "false",
                                               DefaultSettings),
                                       AllOk)
             ELSE Effect(<<>>, "", backgroundSettings, EmptyRecord, badgeText,
                         menuTitle, FALSE, <<>>, <<>>, NoBroadcast)} :
        \E effect \in
            {IF setOk /\ sendOk
             THEN handleRuntimeMessage(platform, toggled.settings,
                                       Spread(storage, settings), toggled.badge,
                                       toggled.title,
                                       Message("SETTINGS_UPDATED", FALSE, BadStr, FALSE,
                                               "absent", settings),
                                       AllOk)
             ELSE toggled} :
            /\ sendOk => relay.listening
            /\ StorageSet(IF setOk THEN settings ELSE EmptyRecord)
            /\ CommitRelay(effect)
            /\ ui' = [ui EXCEPT !.popup.settings = settings]
            /\ ev' = [kind |-> "popupToggle", enabled |-> enabled, setOk |-> setOk,
                      sendOk |-> sendOk, before |-> storage]
    /\ UNCHANGED <<relay, platform, page, toBackground>>

\* the options page opens: init() with loadCurrentSettings, then the form's
\* listeners
OptionsOpen ==
    /\ ~ui.options.open
    /\ \E getOk \in BOOLEAN :
        /\ ui' = [ui EXCEPT !.options =
                    [open |-> TRUE, loadOk |-> getOk,
                     currentSettings |-> ManagerLoadSettings(platform, storage, getOk)]]
        /\ ev' = [kind |-> "optionsOpen", getOk |-> getOk, stored |-> storage]
    /\ UNCHANGED <<relay, platform, page, contentSettings, backgroundSettings, storage,
                   badgeText, menuTitle, toBackground, storageEvents, backgroundEvents>>

\* the record saveSettings of the options page gathers: the form's link
\* mode and check boxes, and enabled and version as the page loaded them
OptionsFormSettings(currentSettings, linkMode, visualFeedback, soundFeedback) ==
    [linkMode |-> linkMode,
     enabled |-> IF "enabled" \in DOMAIN currentSettings
                 THEN currentSettings.enabled ELSE TRUE,
     visualFeedback |-> visualFeedback,
     soundFeedback |-> soundFeedback,
     version |-> currentSettings.version]

\* saveSettings of the options page: the form goes through
\* SettingsManager.saveSettings and, on success, becomes currentSettings.
\* The user picks a link mode and leaves the check boxes as updateUI set
\* them
OptionsSave ==
    /\ ui.options.open
    /\ toBackground = <<>>
    /\ \E linkMode \in {"all", "context"}, setOk \in BOOLEAN :
        \E newSettings \in {OptionsFormSettings(ui.options.currentSettings, linkMode,
                                  ui.options.currentSettings.visualFeedback,
                                  ui.options.currentSettings.soundFeedback)} :
            /\ ManagerStore("save", newSettings, setOk)
            /\ ui' = IF saveSettings(platform, newSettings, setOk).ok
                     THEN [ui EXCEPT !.options.currentSettings = newSettings]
                     ELSE ui
    /\ UNCHANGED <<relay, platform, page, toBackground>>

\* the Safari extension with its pages closed and any stored record
InitPages ==
    /\ platform = "safari"
    /\ page = [location |-> SiteUrl, baseURI |-> SiteUrl]
    /\ storage \in StoredRecords
    /\ contentSettings = ContentLoadedSettings(storage)
    /\ backgroundSettings = LoadedSettings(storage)
    /\ badgeText = BadgeFor(backgroundSettings.enabled)
    /\ menuTitle = "Open with Proxly"
    /\ relay = Serving
    /\ ui = NoPages
    /\ toBackground = <<>>
    /\ storageEvents = <<>>
    /\ backgroundEvents = <<>>
    /\ ev = [kind |-> "init"]

NextPopup ==
    \/ PopupOpen
    \/ PopupHandleModeChange
    \/ PopupHandleMainToggle
    \/ ContentStorageChange
    \/ BackgroundStorageChange

\* the popup: it opens, and the user switches the extension and the link
\* mode
SpecPopup == InitPages /\ [][NextPopup]_vars

NextOptions ==
    \/ OptionsOpen
    \/ OptionsSave
    \/ UiMessage(ToggleMessages)
    \/ ContentStorageChange
    \/ BackgroundStorageChange

\* the options page: it opens and saves while the background script
\* handles toggles
SpecOptions == InitPages /\ [][NextOptions]_vars


----------------------------------------------------------------------------
(* Writers of the stored record overwriting each other: claims C33, C34.   *)

\* the last step was a save of the options page, which had loaded its
\* settings from the store, and the store took the write
OptionsSaved == ev.kind = "save" /\ ev.setOk /\ ui.options.open /\ ui.options.loadOk

\* the persisted enabled value as every loader reads it
PersistedEnabled(store) == LoadedSettings(store).enabled

\* C33: saving from the options page never reverts an enabled toggle made
\* elsewhere: when the background script changed the persisted enabled
\* after the options page loaded its settings, a later save leaves the
\* persisted enabled at the toggled value.
C33_OptionsSaveKeepsToggle ==
    OptionsSaved => PersistedEnabled(storage) = PersistedEnabled(ev.before)


\* the last step was a mode change in the popup whose storage.sync.set
\* went through
PopupModeStored == ev.kind = "popupMode" /\ ev.setOk

\* C34: a mode change in the popup changes only linkMode in the persisted
\* record: the persisted enabled, visualFeedback and soundFeedback keep the
\* values they had before the change, also when the popup's own settings
\* load failed because the background script was unavailable.
C34_ModeChangeWritesLinkModeOnly ==
    PopupModeStored =>
        \A f \in SettingsFields \ {"linkMode"} :
            LoadedSettings(storage)[f] = LoadedSettings(ev.before)[f]


----------------------------------------------------------------------------
(* The toggle of the background script: claims C35 and C36.                *)

\* the step is a run of the TOGGLE_EXTENSION handler for a message without
\* an enabled field, and its storage.sync.set went through
FlipStep ==
    /\ ev'.kind = "message"
    /\ ev'.message.type = "TOGGLE_EXTENSION"
    /\ ev'.message.enabled = "absent"
    /\ ev'.env.setOk

\* C35: a TOGGLE_EXTENSION message without an enabled field always persists
\* the negation of the currently persisted enabled value: the cached enabled
\* the background script flips equals the store's value at the time of the
\* toggle, after any prior store writes by other contexts and storage-change
\* notifications.
C35_FlipNegatesPersistedEnabled ==
    [][FlipStep => /\ backgroundSettings.enabled = PersistedEnabled(storage)
                   /\ PersistedEnabled(storage') = ~PersistedEnabled(storage)]_vars


\* the step is a run of the TOGGLE_EXTENSION handler whose storage.sync.set
\* failed
FailedToggleStep ==
    /\ ev'.kind = "message"
    /\ ev'.message.type = "TOGGLE_EXTENSION"
    /\ ~ev'.env.setOk

\* C36: when persisting the new value fails while the background script
\* handles TOGGLE_EXTENSION, the sender receives an error payload and the
\* background script's state is unchanged: its in-memory enabled is what it
\* was, as is the badge.
C36_FailedToggleLeavesStateUnchanged ==
    [][FailedToggleStep =>
            /\ Len(ev'.out.responses) = 1
            /\ ev'.out.responses[1].tag = "error"
            /\ backgroundSettings'.enabled = backgroundSettings.enabled
            /\ badgeText' = badgeText]_vars


----------------------------------------------------------------------------
(* What SettingsManager.saveSettings reports: claim C37.                   *)

\* the last step was a run of SettingsManager.saveSettings
SaveRan == ev.kind \in {"save", "reset"}

\* C37: SettingsManager.saveSettings returns true if and only if the store
\* write succeeded: when the write fails it returns false, leaves the store
\* unchanged and sends no SETTINGS_UPDATED notification.
C37_SaveReportsTheStoreWrite ==
    SaveRan =>
        /\ ev.out.ok <=> ev.setOk
        /\ ~ev.setOk => (storage = ev.before /\ ev.out.notified = <<>>)


----------------------------------------------------------------------------
(* The context-menu entry under start-up and installation: claim C38.      *)
(* createContextMenu awaits removeAll before it calls create, so a run of  *)
(* it is two steps, and the runs of init() and of handleInstallation may   *)
(* interleave.  relay.install is where the install handler stands.         *)

\* where a caller of createContextMenu stands: relay.pc for init(),
\* relay.install for handleInstallation
MenuCaller(by) == IF by = "init" THEN relay.pc ELSE relay.install

\* the caller's position set to a value
MenuCallerAt(by, at) ==
    IF by = "init" THEN [relay EXCEPT !.pc = at] ELSE [relay EXCEPT !.install = at]

\* what follows createContextMenu in its caller
AfterCreateContextMenu(by) ==
    IF by = "install" THEN "done"
    ELSE IF platform = "safari" THEN "updateExtensionIcon"
    ELSE "setupEventListeners"

\* createContextMenu up to its first await: contextMenus.removeAll().  The
\* universal build leaves the function when it throws, the Safari build
\* catches that and goes on to create
MenuRemoveAll(by) ==
    /\ MenuCaller(by) = "createContextMenu"
    /\ \E removeOk \in BOOLEAN :
        /\ relay' = [MenuCallerAt(by, IF removeOk \/ platform = "safari"
                                      THEN "create"
                                      ELSE AfterCreateContextMenu(by))
                        EXCEPT !.menu = IF removeOk THEN FALSE ELSE @]
        /\ ev' = [kind |-> "removeAll", by |-> by, removeOk |-> removeOk]
    /\ UNCHANGED <<ui, platform, page, contentSettings, backgroundSettings, storage,
                   badgeText, menuTitle, toBackground, storageEvents, backgroundEvents>>

\* createContextMenu after removeAll: contextMenus.create with the id
\* 'proxly-open-url'.  The browser refuses a second entry with the id
MenuCreate(by) ==
    /\ MenuCaller(by) = "create"
    /\ \E createOk \in BOOLEAN :
        /\ relay' = [MenuCallerAt(by, AfterCreateContextMenu(by))
                        EXCEPT !.menu = @ \/ createOk]
        /\ menuTitle' = IF createOk /\ ~relay.menu THEN "Open with Proxly"
                        ELSE menuTitle
        /\ ev' = [kind |-> "create", by |-> by, existed |-> relay.menu,
                  createOk |-> createOk]
    /\ UNCHANGED <<ui, platform, page, contentSettings, backgroundSettings, storage,
                   badgeText, toBackground, storageEvents, backgroundEvents>>

\* runtime.onInstalled reaches handleInstallation: the defaults are stored,
\* and the Safari build goes on to createContextMenu
InstalledReceived ==
    /\ relay.listening
    /\ relay.install = "idle"
    /\ \E reason \in {"install", "update"}, setOk \in BOOLEAN :
        /\ StorageSet(handleInstallation(platform, reason, menuTitle,
                                         [AllOk EXCEPT !.setOk = setOk]).write)
        /\ relay' = [relay EXCEPT !.install = IF platform = "safari" /\ reason = "install"
                                              THEN "createContextMenu" ELSE "done"]
        /\ ev' = [kind |-> "installed", reason |-> reason, setOk |-> setOk]
    /\ UNCHANGED <<ui, platform, page, contentSettings, backgroundSettings, badgeText,
                   menuTitle, toBackground>>

\* the background script right after its constructor, before
\* runtime.onInstalled has fired
InitMenu ==
    /\ platform \in Platforms
    /\ page = [location |-> SiteUrl, baseURI |-> SiteUrl]
    /\ storage \in StoredRecords
    /\ contentSettings = ContentLoadedSettings(storage)
    /\ backgroundSettings = DefaultSettings
    /\ badgeText = ""
    /\ menuTitle = ""
    /\ toBackground = <<>>
    /\ storageEvents = <<>>
    /\ backgroundEvents = <<>>
    /\ relay = [pc |-> "loadSettings", menu |-> FALSE, listening |-> platform = "safari",
                install |-> "idle"]
    /\ ui = NoPages
    /\ ev = [kind |-> "init"]

NextMenu ==
    \/ InitLoadSettings
    \/ MenuRemoveAll("init")
    \/ MenuCreate("init")
    \/ InitSetupEventListeners
    \/ InitUpdateExtensionIcon
    \/ InstalledReceived
    \/ MenuRemoveAll("install")
    \/ MenuCreate("install")
    \/ ContentStorageChange
    \/ BackgroundStorageChange

\* start-up and installation, await by await
SpecMenu == InitMenu /\ [][NextMenu]_vars

\* C38: at most one context-menu entry with the id 'proxly-open-url' exists
\* at any time and no create call is issued while an entry with that id
\* exists, under every interleaving of init() and the install handler, each
\* of which removes all entries and then creates the entry.
C38_NoCreateOverExistingEntry ==
    ev.kind = "create" => ~ev.existed

====
